---- MODULE Spec2Model ----
(***************************************************************************)
(* Konane: board model, game-state machine, rules engine and Zobrist       *)
(* fingerprint, modelled from src/src/game/{state,rules,zhash}.rs, the AI  *)
(* player of src/src/game/ai.rs and the application of src/src/ui/app.rs.  *)
(***************************************************************************)
EXTENDS Integers, Sequences, FiniteSets, TLC

VARIABLES state, last, njumps, query, ai, app, hash, imported

vars == <<state, last, njumps, query, ai, app, hash, imported>>

(***************************************************************************)
(* Bounds of the model.                                                    *)
(***************************************************************************)
\* largest board size on which jumps are played and probed (sizes are the
\* even numbers MinSize..MaxSize); the opening is played on every size
MaxSize == 6
\* cap on the number of moves applied in one game on boards above MinSize
MaxMoves == 3
\* cap on the number of jumps played before an unchecked call
MaxCallMoves == 1
\* largest search depth compute_move is called with
MaxDepth == 2
\* cap on the length of the application's undo stack
MaxUndo == 2
\* cap on the length of a game log on boards above MinSize
MaxLog == 4
\* largest number of stones removed from the board of a fixture
MaxStripped == 2

\* a session: moves of the first game played before the session is
\* followed, messages handled from there, searches running at once, games
\* started
MaxPlayed == 5

MaxMessages == 5

\* cells of an opening removal that are clicked
MaxClicks == 1

MaxTasks == 2

MaxGames == 2

(***************************************************************************)
(* Program constants.                                                      *)
(***************************************************************************)
MinSize == 4
MaxBoardSize == 16
MAX_SIZE == 16
MAX_POSITIONS == MAX_SIZE * MAX_SIZE
NUM_PHASES == 6

(***************************************************************************)
(* Generic helpers: Option values and sequences.                           *)
(***************************************************************************)
None == <<>>

Some(x) == <<x>>

Range(s) == {s[i] : i \in 1..Len(s)}

Contains(s, x) == \E i \in 1..Len(s) : s[i] = x

(***************************************************************************)
(* state.rs: colours, positions, directions, cells, phases.                *)
(***************************************************************************)
Black == "Black"

White == "White"

PieceColor == {Black, White}

opposite(c) == IF c = Black THEN White ELSE Black

Empty == "Empty"

Occupied(c) == c

Cell == {Empty, Black, White}

Position_new(row, col) == <<row, col>>

Up == "Up"

Down == "Down"

Left == "Left"

Right == "Right"

Direction_all == <<Up, Down, Left, Right>>

Direction_apply(d, pos, board_size) ==
    CASE d = Up /\ pos[1] < board_size - 1    -> Some(Position_new(pos[1] + 1, pos[2]))
      [] d = Down /\ pos[1] > 0               -> Some(Position_new(pos[1] - 1, pos[2]))
      [] d = Left /\ pos[2] > 0               -> Some(Position_new(pos[1], pos[2] - 1))
      [] d = Right /\ pos[2] < board_size - 1 -> Some(Position_new(pos[1], pos[2] + 1))
      [] OTHER                                -> None

Setup == [name |-> "Setup", winner |-> "None"]

OpeningBlackRemoval == [name |-> "OpeningBlackRemoval", winner |-> "None"]

OpeningWhiteRemoval == [name |-> "OpeningWhiteRemoval", winner |-> "None"]

Play == [name |-> "Play", winner |-> "None"]

GameOver(w) == [name |-> "GameOver", winner |-> w]

GamePhase == {Setup, OpeningBlackRemoval, OpeningWhiteRemoval, Play,
              GameOver(Black), GameOver(White)}

OpeningRemovalRecord(c, pos) ==
    [kind |-> "OpeningRemoval", color |-> c, position |-> pos]

JumpRecord(c, from, to, captured) ==
    [kind |-> "Jump", color |-> c, from |-> from, to |-> to, captured |-> captured]

(***************************************************************************)
(* state.rs: Board.                                                        *)
(***************************************************************************)
Positions(size) == (0..(size - 1)) \X (0..(size - 1))

\* cells is the size x size array in row-major order, as a sequence
CellIndex(size, pos) == pos[1] * size + pos[2] + 1

\* a slip: the colours of the checkerboard are swapped
Board_new_swapped(size) ==
    [size  |-> size,
     cells |-> [i \in 1..(size * size) |->
                  IF (((i - 1) \div size) + ((i - 1) % size)) % 2 = 0
                  THEN Occupied(White) ELSE Occupied(Black)]]

\* a slip: the colour alternates from row to row only
Board_new_striped(size) ==
    [size  |-> size,
     cells |-> [i \in 1..(size * size) |->
                  IF ((i - 1) \div size) % 2 = 0
                  THEN Occupied(Black) ELSE Occupied(White)]]

Board_new(size) ==
    [size  |-> size,
     cells |-> [i \in 1..(size * size) |->
                  IF (((i - 1) \div size) + ((i - 1) % size)) % 2 = 0
                  THEN Occupied(Black) ELSE Occupied(White)]]

Board_get(board, pos) ==
    IF pos[1] < board.size /\ pos[2] < board.size
    THEN Some(board.cells[CellIndex(board.size, pos)])
    ELSE None

Board_set(board, pos, cell) ==
    IF pos[1] < board.size /\ pos[2] < board.size
    THEN [board EXCEPT !.cells[CellIndex(board.size, pos)] = cell]
    ELSE board

Board_remove(board, pos) == Board_set(board, pos, Empty)

Board_is_empty(board, pos) == Board_get(board, pos) = Some(Empty)

Board_get_piece_color(board, pos) ==
    LET c == Board_get(board, pos)
    IN  IF c # None /\ c[1] # Empty THEN Some(c[1]) ELSE None

center_positions(board) ==
    LET mid == board.size \div 2
    IN  << Position_new(mid - 1, mid - 1),
           Position_new(mid - 1, mid),
           Position_new(mid, mid - 1),
           Position_new(mid, mid) >>

corner_positions(board) ==
    << Position_new(0, 0),
       Position_new(0, board.size - 1),
       Position_new(board.size - 1, 0),
       Position_new(board.size - 1, board.size - 1) >>

RECURSIVE NeighborsFrom(_, _, _)
NeighborsFrom(board, pos, i) ==
    IF i > Len(Direction_all) THEN <<>>
    ELSE Direction_apply(Direction_all[i], pos, board.size)
           \o NeighborsFrom(board, pos, i + 1)

\* a slip: the first direction is left out
orthogonal_neighbors_skipfirst(board, pos) == NeighborsFrom(board, pos, 2)

orthogonal_neighbors(board, pos) == NeighborsFrom(board, pos, 1)

(***************************************************************************)
(* zhash.rs: 64-bit words are sets of bit positions 0..63; XOR is the      *)
(* symmetric difference and shifts drop the bits that leave the word.      *)
(***************************************************************************)
Xor(a, b) == (a \ b) \cup (b \ a)

Shl(x, n) == {b + n : b \in {c \in x : c + n <= 63}}

Shr(x, n) == {b - n : b \in {c \in x : c >= n}}

\* 0x12345678_9ABCDEF0
Seed == {4, 5, 6, 7, 9, 10, 11, 12, 14, 15, 18, 19, 20, 21, 23, 25, 27, 28,
         31, 35, 36, 37, 38, 41, 42, 44, 46, 50, 52, 53, 57, 60}

XorShift64_next(s) ==
    LET x1 == Xor(s, Shl(s, 13))
        x2 == Xor(x1, Shr(x1, 7))
    IN  Xor(x2, Shl(x2, 17))

RECURSIVE RngStream(_, _)
RngStream(s, n) ==
    IF n = 0 THEN <<>>
    ELSE IF n = 1 THEN <<XorShift64_next(s)>>
    ELSE LET h == n \div 2
             a == RngStream(s, h)
         IN  a \o RngStream(a[h], n - h)

\* pieces (MAX_POSITIONS values), then turn, then phases, in drawing order
ZobristTables == RngStream(Seed, MAX_POSITIONS + 1 + NUM_PHASES)

TABLES_pieces(i) == ZobristTables[i + 1]

TABLES_turn == ZobristTables[MAX_POSITIONS + 1]

TABLES_phases(i) == ZobristTables[MAX_POSITIONS + 2 + i]

INITIAL_VALUE == {}

pos_to_index(pos) == pos[1] * MAX_SIZE + pos[2]

\* a slip: the two GameOver phases share an index
phase_to_index_merged(phase) ==
    CASE phase = Setup               -> 0
      [] phase = OpeningBlackRemoval -> 1
      [] phase = OpeningWhiteRemoval -> 2
      [] phase = Play                -> 3
      [] phase = GameOver(Black)     -> 4
      [] phase = GameOver(White)     -> 4

phase_to_index(phase) ==
    CASE phase = Setup               -> 0
      [] phase = OpeningBlackRemoval -> 1
      [] phase = OpeningWhiteRemoval -> 2
      [] phase = Play                -> 3
      [] phase = GameOver(Black)     -> 4
      [] phase = GameOver(White)     -> 5

\* the "for col" loop of from_state: the XOR of the piece values of the
\* occupied cells of the row from column col on
RECURSIVE FoldRow(_, _, _)
FoldRow(board, row, col) ==
    IF col >= board.size THEN {}
    ELSE LET pos == Position_new(row, col)
             c   == Board_get(board, pos)
         IN  Xor(IF c # None /\ c[1] # Empty
                 THEN TABLES_pieces(pos_to_index(pos)) ELSE {},
                 FoldRow(board, row, col + 1))

\* the "for row" loop of from_state: the XOR over the rows from `row` on
RECURSIVE FoldCells(_, _)
FoldCells(board, row) ==
    IF row >= board.size THEN {}
    ELSE Xor(FoldRow(board, row, 0), FoldCells(board, row + 1))

ZHash_from_state(board, phase, turn) ==
    LET v1 == FoldCells(board, 0)
        v2 == IF turn = White THEN Xor(v1, TABLES_turn) ELSE v1
    IN  Xor(v2, TABLES_phases(phase_to_index(phase)))

ZHash_remove_stone(value, pos) == Xor(value, TABLES_pieces(pos_to_index(pos)))

\* a slip: the destination cell is not toggled
ZHash_move_stone_from(value, from, to) == Xor(value, TABLES_pieces(pos_to_index(from)))

ZHash_move_stone(value, from, to) ==
    Xor(Xor(value, TABLES_pieces(pos_to_index(from))), TABLES_pieces(pos_to_index(to)))

ZHash_end_turn(value) == Xor(value, TABLES_turn)

\* a slip: the value of the old phase is not toggled
ZHash_change_phase_newonly(value, old, new) ==
    Xor(value, TABLES_phases(phase_to_index(new)))

ZHash_change_phase(value, old, new) ==
    Xor(Xor(value, TABLES_phases(phase_to_index(old))), TABLES_phases(phase_to_index(new)))

(***************************************************************************)
(* GameState: the struct, its constructor and its accessors/mutators.      *)
(***************************************************************************)
GameState_new(board_size) ==
    [board             |-> Board_new(board_size),
     phase             |-> OpeningBlackRemoval,
     current_player    |-> Black,
     first_removal_pos |-> None,
     zhash             |-> ZHash_from_state(Board_new(board_size), OpeningBlackRemoval, Black)]

get_opening_position(s) == s.first_removal_pos

fingerprint(s) == s.zhash

move_stone(s, from, to) ==
    LET c  == Board_get(s.board, from)[1]
        b1 == Board_set(s.board, from, Empty)
    IN  [s EXCEPT !.board = Board_set(b1, to, c),
                  !.zhash = ZHash_move_stone(s.zhash, from, to)]

remove_stone(s, pos) ==
    [s EXCEPT !.board = Board_remove(s.board, pos),
              !.zhash = ZHash_remove_stone(s.zhash, pos)]

\* a slip: the opening position is not recorded
remove_opening_stone_unrecorded(s, pos) == remove_stone(s, pos)

remove_opening_stone(s, pos) ==
    [remove_stone(s, pos) EXCEPT !.first_removal_pos = Some(pos)]

end_turn(s) ==
    [s EXCEPT !.current_player = opposite(s.current_player),
              !.zhash = ZHash_end_turn(s.zhash)]

change_phase(s, new) ==
    [s EXCEPT !.phase = new,
              !.zhash = ZHash_change_phase(s.zhash, s.phase, new)]

\* the side to move is replaced; count_mobility_for calls it on a temporary
\* copy whose fingerprint is never read
set_current_player(s, color) == [s EXCEPT !.current_player = color]

(***************************************************************************)
(* rules.rs: the rules engine.  A Jump is a record                          *)
(* [from, to, direction, captured]; Vec results are sequences in the        *)
(* order the code pushes them.                                              *)
(***************************************************************************)
Jump(from, to, direction, captured) ==
    [from |-> from, to |-> to, direction |-> direction, captured |-> captured]

valid_black_opening_removals(s) ==
    LET board_size == s.board.size
    IN  << Position_new(board_size \div 2 - 1, board_size \div 2 - 1),
           Position_new(board_size \div 2, board_size \div 2),
           Position_new(0, 0),
           Position_new(board_size - 1, board_size - 1) >>

\* a slip: the neighbours are not filtered by colour
valid_white_opening_removals_unfiltered(s) ==
    IF get_opening_position(s) = None THEN <<>>
    ELSE orthogonal_neighbors(s.board, get_opening_position(s)[1])

valid_white_opening_removals(s) ==
    IF get_opening_position(s) = None THEN <<>>
    ELSE SelectSeq(orthogonal_neighbors(s.board, get_opening_position(s)[1]),
                   LAMBDA n : Board_get_piece_color(s.board, n) = Some(White))

\* a slip: the landing cell is not required to be empty
is_valid_single_jump_nolanding(board, from, direction, player) ==
    LET over == Direction_apply(direction, from, board.size)
    IN  IF over = None THEN None
        ELSE IF Board_get_piece_color(board, over[1]) # Some(opposite(player)) THEN None
        ELSE LET to == Direction_apply(direction, over[1], board.size)
             IN  IF to = None THEN None ELSE Some(<<over[1], to[1]>>)

\* Some(<<over, to>>) or None
is_valid_single_jump(board, from, direction, player) ==
    LET over == Direction_apply(direction, from, board.size)
    IN  IF over = None THEN None
        ELSE IF Board_get_piece_color(board, over[1]) # Some(opposite(player)) THEN None
        ELSE LET to == Direction_apply(direction, over[1], board.size)
             IN  IF to = None THEN None
                 ELSE IF ~Board_is_empty(board, to[1]) THEN None
                 ELSE Some(<<over[1], to[1]>>)

\* a slip: the pushed jump keeps the landing cell of the previous capture
RECURSIVE MultiJumpLoop_stale(_, _, _, _, _, _)
MultiJumpLoop_stale(test_board, from, direction, player, current_to, captured) ==
    LET tb1  == Board_set(test_board, current_to, Empty)
        next == is_valid_single_jump(tb1, current_to, direction, player)
    IN  IF next = None THEN <<>>
        ELSE LET next_captured == next[1][1]
                 next_to       == next[1][2]
                 tb2 == Board_set(tb1, current_to, Occupied(player))
                 tb3 == Board_remove(tb2, next_captured)
                 tb4 == Board_set(tb3, next_to, Occupied(player))
                 cap == Append(captured, next_captured)
             IN  <<Jump(from, current_to, direction, cap)>>
                   \o MultiJumpLoop_stale(tb4, from, direction, player, next_to, cap)

\* the "loop" of valid_jumps_from: further captures in the same direction
RECURSIVE MultiJumpLoop(_, _, _, _, _, _)
MultiJumpLoop(test_board, from, direction, player, current_to, captured) ==
    LET tb1  == Board_set(test_board, current_to, Empty)
        next == is_valid_single_jump(tb1, current_to, direction, player)
    IN  IF next = None THEN <<>>
        ELSE LET next_captured == next[1][1]
                 next_to       == next[1][2]
                 tb2 == Board_set(tb1, current_to, Occupied(player))
                 tb3 == Board_remove(tb2, next_captured)
                 tb4 == Board_set(tb3, next_to, Occupied(player))
                 cap == Append(captured, next_captured)
             IN  <<Jump(from, next_to, direction, cap)>>
                   \o MultiJumpLoop(tb4, from, direction, player, next_to, cap)

\* a slip: only the longest chain of a direction is returned
JumpsInDirection_longest(board, from, direction, player) ==
    LET first == is_valid_single_jump(board, from, direction, player)
    IN  IF first = None THEN <<>>
        ELSE LET captured_pos == first[1][1]
                 to           == first[1][2]
                 tb1 == Board_remove(board, from)
                 tb2 == Board_remove(tb1, captured_pos)
                 tb3 == Board_set(tb2, to, Occupied(player))
                 all == <<Jump(from, to, direction, <<captured_pos>>)>>
                          \o MultiJumpLoop(tb3, from, direction, player, to, <<captured_pos>>)
             IN  <<all[Len(all)]>>

\* the body of the "for direction" loop of valid_jumps_from
JumpsInDirection(board, from, direction, player) ==
    LET first == is_valid_single_jump(board, from, direction, player)
    IN  IF first = None THEN <<>>
        ELSE LET captured_pos == first[1][1]
                 to           == first[1][2]
                 tb1 == Board_remove(board, from)
                 tb2 == Board_remove(tb1, captured_pos)
                 tb3 == Board_set(tb2, to, Occupied(player))
             IN  <<Jump(from, to, direction, <<captured_pos>>)>>
                   \o MultiJumpLoop(tb3, from, direction, player, to, <<captured_pos>>)

RECURSIVE JumpsOverDirections(_, _, _, _)
JumpsOverDirections(board, from, player, i) ==
    IF i > Len(Direction_all) THEN <<>>
    ELSE JumpsInDirection(board, from, Direction_all[i], player)
           \o JumpsOverDirections(board, from, player, i + 1)

valid_jumps_from(s, from) ==
    IF Board_get_piece_color(s.board, from) # Some(s.current_player)
    THEN <<>>
    ELSE JumpsOverDirections(s.board, from, s.current_player, 1)

\* the "for col" loop of all_valid_jumps, from column col of the row
RECURSIVE JumpsOverRow(_, _, _)
JumpsOverRow(s, row, col) ==
    IF col >= s.board.size THEN <<>>
    ELSE valid_jumps_from(s, Position_new(row, col)) \o JumpsOverRow(s, row, col + 1)

\* the "for row" loop of all_valid_jumps, from row `row`
RECURSIVE JumpsOverCells(_, _)
JumpsOverCells(s, row) ==
    IF row >= s.board.size THEN <<>>
    ELSE JumpsOverRow(s, row, 0) \o JumpsOverCells(s, row + 1)

all_valid_jumps(s) == JumpsOverCells(s, 0)

\* a slip: outside the opening the jumps are looked at whatever the phase
has_valid_move_anyphase(s) ==
    CASE s.phase = OpeningBlackRemoval -> valid_black_opening_removals(s) # <<>>
      [] s.phase = OpeningWhiteRemoval -> valid_white_opening_removals(s) # <<>>
      [] OTHER                         -> all_valid_jumps(s) # <<>>

has_valid_move(s) ==
    CASE s.phase = OpeningBlackRemoval -> valid_black_opening_removals(s) # <<>>
      [] s.phase = OpeningWhiteRemoval -> valid_white_opening_removals(s) # <<>>
      [] s.phase = Play                -> all_valid_jumps(s) # <<>>
      [] OTHER                         -> FALSE

\* a slip: only the first captured piece is removed
RemoveCaptured_first(s, captured, i) ==
    IF captured = <<>> THEN s ELSE remove_stone(s, captured[1])

RECURSIVE RemoveCaptured(_, _, _)
RemoveCaptured(s, captured, i) ==
    IF i > Len(captured) THEN s
    ELSE RemoveCaptured(remove_stone(s, captured[i]), captured, i + 1)

\* a slip: the captured pieces stay on the board
apply_jump_uncaptured(s, jump) ==
    LET player == s.current_player
        s3 == end_turn(move_stone(s, jump.from, jump.to))
        s4 == IF ~has_valid_move(s3) THEN change_phase(s3, GameOver(player)) ELSE s3
    IN  [state  |-> s4,
         record |-> JumpRecord(player, jump.from, jump.to, jump.captured)]

\* a slip: the turn is not passed on
apply_jump_noturn(s, jump) ==
    LET player == s.current_player
        s1 == move_stone(s, jump.from, jump.to)
        s2 == RemoveCaptured(s1, jump.captured, 1)
        s4 == IF ~has_valid_move(s2) THEN change_phase(s2, GameOver(player)) ELSE s2
    IN  [state  |-> s4,
         record |-> JumpRecord(player, jump.from, jump.to, jump.captured)]

\* a slip: the stuck player is declared the winner
apply_jump_winner(s, jump) ==
    LET player == s.current_player
        s1 == move_stone(s, jump.from, jump.to)
        s2 == RemoveCaptured(s1, jump.captured, 1)
        s3 == end_turn(s2)
        s4 == IF ~has_valid_move(s3)
              THEN change_phase(s3, GameOver(s3.current_player)) ELSE s3
    IN  [state  |-> s4,
         record |-> JumpRecord(player, jump.from, jump.to, jump.captured)]

\* a slip: the end of the game is not looked for
apply_jump_neverover(s, jump) ==
    LET player == s.current_player
        s1 == move_stone(s, jump.from, jump.to)
        s2 == RemoveCaptured(s1, jump.captured, 1)
    IN  [state  |-> end_turn(s2),
         record |-> JumpRecord(player, jump.from, jump.to, jump.captured)]

\* result: [state |-> the state after the call, record |-> the MoveRecord]
apply_jump(s, jump) ==
    LET player == s.current_player
        s1 == move_stone(s, jump.from, jump.to)
        s2 == RemoveCaptured(s1, jump.captured, 1)
        s3 == end_turn(s2)
        s4 == IF ~has_valid_move(s3) THEN change_phase(s3, GameOver(player)) ELSE s3
    IN  [state  |-> s4,
         record |-> JumpRecord(player, jump.from, jump.to, jump.captured)]

\* a slip: the arm is chosen by the side to move instead of the phase
apply_opening_removal_byturn(s, pos) ==
    IF s.current_player = Black
    THEN IF ~Contains(valid_black_opening_removals(s), pos)
         THEN [state |-> s, ok |-> FALSE, record |-> None, error |-> "Invalid removal position for Black"]
         ELSE LET s1 == remove_opening_stone(s, pos)
                  s2 == change_phase(s1, OpeningWhiteRemoval)
                  s3 == end_turn(s2)
              IN  [state |-> s3, ok |-> TRUE, record |-> Some(OpeningRemovalRecord(Black, pos)), error |-> ""]
    ELSE IF ~Contains(valid_white_opening_removals(s), pos)
         THEN [state |-> s, ok |-> FALSE, record |-> None, error |-> "Invalid removal position for White"]
         ELSE LET s1 == remove_stone(s, pos)
                  s2 == change_phase(s1, Play)
                  s3 == end_turn(s2)
                  s4 == IF ~has_valid_move(s3)
                        THEN change_phase(s3, GameOver(White)) ELSE s3
              IN  [state |-> s4, ok |-> TRUE, record |-> Some(OpeningRemovalRecord(White, pos)), error |-> ""]

\* a slip: the second removal is not validated
apply_opening_removal_unvalidated(s, pos) ==
    CASE s.phase = OpeningBlackRemoval ->
           IF ~Contains(valid_black_opening_removals(s), pos)
           THEN [state |-> s, ok |-> FALSE, record |-> None, error |-> "Invalid removal position for Black"]
           ELSE LET s1 == remove_opening_stone(s, pos)
                    s2 == change_phase(s1, OpeningWhiteRemoval)
                    s3 == end_turn(s2)
                IN  [state |-> s3, ok |-> TRUE, record |-> Some(OpeningRemovalRecord(Black, pos)), error |-> ""]
      [] s.phase = OpeningWhiteRemoval ->
           LET s1 == remove_stone(s, pos)
               s2 == change_phase(s1, Play)
               s3 == end_turn(s2)
               s4 == IF ~has_valid_move(s3)
                     THEN change_phase(s3, GameOver(White)) ELSE s3
           IN  [state |-> s4, ok |-> TRUE, record |-> Some(OpeningRemovalRecord(White, pos)), error |-> ""]
      [] OTHER -> [state |-> s, ok |-> FALSE, record |-> None, error |-> "Not in opening phase"]

\* a slip: the win check is also made after the first removal
apply_opening_removal_blackcheck(s, pos) ==
    CASE s.phase = OpeningBlackRemoval ->
           IF ~Contains(valid_black_opening_removals(s), pos)
           THEN [state |-> s, ok |-> FALSE, record |-> None, error |-> "Invalid removal position for Black"]
           ELSE LET s1 == remove_opening_stone(s, pos)
                    s2 == change_phase(s1, OpeningWhiteRemoval)
                    s3 == end_turn(s2)
                    s4 == IF ~has_valid_move(s3)
                          THEN change_phase(s3, GameOver(Black)) ELSE s3
                IN  [state |-> s4, ok |-> TRUE, record |-> Some(OpeningRemovalRecord(Black, pos)), error |-> ""]
      [] s.phase = OpeningWhiteRemoval ->
           IF ~Contains(valid_white_opening_removals(s), pos)
           THEN [state |-> s, ok |-> FALSE, record |-> None, error |-> "Invalid removal position for White"]
           ELSE LET s1 == remove_stone(s, pos)
                    s2 == change_phase(s1, Play)
                    s3 == end_turn(s2)
                    s4 == IF ~has_valid_move(s3)
                          THEN change_phase(s3, GameOver(White)) ELSE s3
                IN  [state |-> s4, ok |-> TRUE, record |-> Some(OpeningRemovalRecord(White, pos)), error |-> ""]
      [] OTHER -> [state |-> s, ok |-> FALSE, record |-> None, error |-> "Not in opening phase"]

\* a slip: no win check after the second removal
apply_opening_removal_nocheck(s, pos) ==
    CASE s.phase = OpeningBlackRemoval ->
           IF ~Contains(valid_black_opening_removals(s), pos)
           THEN [state |-> s, ok |-> FALSE, record |-> None, error |-> "Invalid removal position for Black"]
           ELSE LET s1 == remove_opening_stone(s, pos)
                    s2 == change_phase(s1, OpeningWhiteRemoval)
                    s3 == end_turn(s2)
                IN  [state |-> s3, ok |-> TRUE, record |-> Some(OpeningRemovalRecord(Black, pos)), error |-> ""]
      [] s.phase = OpeningWhiteRemoval ->
           IF ~Contains(valid_white_opening_removals(s), pos)
           THEN [state |-> s, ok |-> FALSE, record |-> None, error |-> "Invalid removal position for White"]
           ELSE LET s1 == remove_stone(s, pos)
                    s2 == change_phase(s1, Play)
                    s3 == end_turn(s2)
                    s4 == s3
                IN  [state |-> s4, ok |-> TRUE, record |-> Some(OpeningRemovalRecord(White, pos)), error |-> ""]
      [] OTHER -> [state |-> s, ok |-> FALSE, record |-> None, error |-> "Not in opening phase"]

\* result: [state, ok, record, error]; ok = FALSE is the Err return, with
\* its text in error; record is Some(MoveRecord) on Ok
apply_opening_removal(s, pos) ==
    CASE s.phase = OpeningBlackRemoval ->
           IF ~Contains(valid_black_opening_removals(s), pos)
           THEN [state |-> s, ok |-> FALSE, record |-> None, error |-> "Invalid removal position for Black"]
           ELSE LET s1 == remove_opening_stone(s, pos)
                    s2 == change_phase(s1, OpeningWhiteRemoval)
                    s3 == end_turn(s2)
                IN  [state |-> s3, ok |-> TRUE, record |-> Some(OpeningRemovalRecord(Black, pos)), error |-> ""]
      [] s.phase = OpeningWhiteRemoval ->
           IF ~Contains(valid_white_opening_removals(s), pos)
           THEN [state |-> s, ok |-> FALSE, record |-> None, error |-> "Invalid removal position for White"]
           ELSE LET s1 == remove_stone(s, pos)
                    s2 == change_phase(s1, Play)
                    s3 == end_turn(s2)
                    s4 == IF ~has_valid_move(s3)
                          THEN change_phase(s3, GameOver(White)) ELSE s3
                IN  [state |-> s4, ok |-> TRUE, record |-> Some(OpeningRemovalRecord(White, pos)), error |-> ""]
      [] OTHER -> [state |-> s, ok |-> FALSE, record |-> None, error |-> "Not in opening phase"]

(***************************************************************************)
(* The game played through the rules engine.  Every call takes its move    *)
(* from a query function; `last` describes the most recent call:           *)
(*   op      the function called                                           *)
(*   pos     Some(position) for apply_opening_removal                      *)
(*   jump    Some(jump) for apply_jump                                     *)
(*   ok      FALSE when the call returned Err, with its text in error      *)
(*   record  Some(MoveRecord) the call returned                            *)
(*   checked the move was offered by the query of the current phase        *)
(* njumps counts the apply_jump calls; query holds the last query result.  *)
(***************************************************************************)
Sizes == {n \in MinSize..MaxSize : n % 2 = 0}

\* the sizes Board::new accepts
BoardSizes == {n \in MinSize..MaxBoardSize : n % 2 = 0}

NoCall ==
    [op |-> "new", pos |-> None, jump |-> None, ok |-> TRUE, record |-> None,
     error |-> "", checked |-> TRUE]

NoQuery == [kind |-> "none", from |-> None, jumps |-> <<>>, all |-> <<>>]

\* no AiPlayer::compute_move call was made; otherwise op names the caller,
\* root is the state searched and result the value returned
NoAi == [op |-> "none", depth |-> 0, root |-> None, result |-> None]

\* no KonaneApp is running
NoApp == [view |-> "None"]

\* no ZHash is under test
NoHash == [op |-> "none"]

\* no game log was imported
NoImport == [op |-> "none"]

\* the smallest board is played to the end, boards up to MaxSize for
\* MaxMoves jumps, larger ones through the opening only
MovesLeft ==
    \/ state.board.size = MinSize
    \/ state.board.size <= MaxSize /\ njumps < MaxMoves

Init ==
    /\ \E n \in BoardSizes : state = GameState_new(n)
    /\ last = NoCall
    /\ njumps = 0
    /\ query = NoQuery
    /\ ai = NoAi
    /\ app = NoApp
    /\ hash = NoHash
    /\ imported = NoImport

CallOpeningRemoval(pos, checked) ==
    LET r == apply_opening_removal(state, pos)
    IN  /\ state' = r.state
        /\ last' = [op |-> "apply_opening_removal", pos |-> Some(pos),
                    jump |-> None, ok |-> r.ok, record |-> r.record,
                    error |-> r.error, checked |-> checked]
        /\ UNCHANGED <<njumps, query, ai, app, hash, imported>>

CallJump(jump, checked) ==
    LET r == apply_jump(state, jump)
    IN  /\ state' = r.state
        /\ last' = [op |-> "apply_jump", pos |-> None, jump |-> Some(jump),
                    ok |-> TRUE, record |-> Some(r.record), error |-> "",
                    checked |-> checked]
        /\ njumps' = njumps + 1
        /\ UNCHANGED <<query, ai, app, hash, imported>>

BlackRemoval ==
    /\ last.checked
    /\ state.phase = OpeningBlackRemoval
    /\ \E pos \in Range(valid_black_opening_removals(state)) :
          CallOpeningRemoval(pos, TRUE)

WhiteRemoval ==
    /\ last.checked
    /\ state.phase = OpeningWhiteRemoval
    /\ \E pos \in Range(valid_white_opening_removals(state)) :
          CallOpeningRemoval(pos, TRUE)

\* all_valid_jumps is used whatever the phase is
JumpMove ==
    /\ last.checked
    /\ MovesLeft
    /\ \E jump \in Range(all_valid_jumps(state)) : CallJump(jump, TRUE)

\* the removal queries still offer positions outside their own phase; a
\* caller that takes one is the last call of the behaviour
StaleRemoval ==
    /\ last.checked
    /\ \/ /\ state.phase # OpeningBlackRemoval
          /\ \E pos \in Range(valid_black_opening_removals(state)) :
                CallOpeningRemoval(pos, FALSE)
       \/ /\ state.phase # OpeningWhiteRemoval
          /\ \E pos \in Range(valid_white_opening_removals(state)) :
                CallOpeningRemoval(pos, FALSE)

Next == BlackRemoval \/ WhiteRemoval \/ JumpMove \/ StaleRemoval

Spec == Init /\ [][Next]_vars

(***************************************************************************)
(* A game played to its end on the smallest board: both sides take a legal *)
(* move of the current phase for as long as there is one.                  *)
(***************************************************************************)
InitPlay ==
    /\ state = GameState_new(MinSize)
    /\ last = NoCall
    /\ njumps = 0
    /\ query = NoQuery
    /\ ai = NoAi
    /\ app = NoApp
    /\ hash = NoHash
    /\ imported = NoImport

PlayJump ==
    /\ state.phase = Play
    /\ \E jump \in Range(all_valid_jumps(state)) : CallJump(jump, TRUE)

NextPlay == BlackRemoval \/ WhiteRemoval \/ PlayJump

\* the side to move moves for as long as it has a move: weak fairness of
\* the three moves, the enabling condition of White's removal and of the
\* jumps written as has_valid_move, the test the rules themselves make
PlayFairness ==
    /\ WF_vars(BlackRemoval)
    /\ ([]<>(~has_valid_move(state))) \/ ([]<><<WhiteRemoval \/ PlayJump>>_vars)

SpecPlay == InitPlay /\ [][NextPlay]_vars /\ PlayFairness

(***************************************************************************)
(* The jump generator as a pure function: InitJumps draws a board, a side  *)
(* to move and an origin; the action runs the two jump queries on it.      *)
(* A probe board is empty except for cells on lines through the origin:    *)
(* an arbitrary row, an arbitrary column, or the mover's piece on the      *)
(* origin with an arbitrary row and column around it (on larger boards     *)
(* only from the corner (0,0), with the far end of both lines empty).      *)
(***************************************************************************)
\* cells of the origin's row are a[col]; the other cells of its column are
\* b[row]; every other cell is empty
ProbeBoard(n, from, a, b) ==
    [size  |-> n,
     cells |-> [i \in 1..(n * n) |->
                  LET r == (i - 1) \div n
                      c == (i - 1) % n
                  IN  IF r = from[1] THEN a[c]
                      ELSE IF c = from[2] THEN b[r]
                      ELSE Empty]]

Lines(n) == [0..(n - 1) -> Cell]

EmptyLine(n) == [i \in 0..(n - 1) |-> Empty]

\* the shapes of probe boards: an arbitrary row through the origin, an
\* arbitrary column through it, and the mover's piece on the origin with
\* arbitrary cells on its row and column
ProbeShapes(n) == {"row", "col", "cross"}

\* the lines of a cross: any on the smallest board; on a larger board the
\* origin is the corner (0,0) and the last cell of the line is empty
CrossLines(n, from) ==
    IF n = MinSize THEN Lines(n)
    ELSE IF from # Position_new(0, 0) THEN {}
    ELSE {f \in Lines(n) : f[n - 1] = Empty}

ProbeRows(n, from, player, shape) ==
    CASE shape = "row"   -> Lines(n)
      [] shape = "col"   -> {EmptyLine(n)}
      [] shape = "cross" -> {f \in CrossLines(n, from) : f[from[2]] = Occupied(player)}

ProbeCols(n, from, shape) ==
    CASE shape = "row"   -> {EmptyLine(n)}
      [] shape = "col"   -> Lines(n)
      [] shape = "cross" -> {f \in CrossLines(n, from) : f[from[1]] = Empty}

\* on a "col" board the origin cell is the column's own cell
ProbeOf(n, from, shape, a, b) ==
    IF shape = "col"
    THEN ProbeBoard(n, from, [a EXCEPT ![from[2]] = b[from[1]]], b)
    ELSE ProbeBoard(n, from, a, b)

\* origins: the two diagonals of the smallest board, the main diagonal of
\* larger ones
ProbeOrigins(n) ==
    {Position_new(i, i) : i \in 0..(n - 1)}
      \cup (IF n = MinSize THEN {Position_new(i, n - 1 - i) : i \in 0..(n - 1)} ELSE {})

ProbeState(board, player) ==
    [board             |-> board,
     phase             |-> Play,
     current_player    |-> player,
     first_removal_pos |-> None,
     zhash             |-> ZHash_from_state(board, Play, player)]

InitJumps ==
    /\ \E n \in Sizes : \E from \in ProbeOrigins(n) : \E player \in PieceColor :
          \E shape \in ProbeShapes(n) :
             \E a \in ProbeRows(n, from, player, shape) : \E b \in ProbeCols(n, from, shape) :
                /\ state = ProbeState(ProbeOf(n, from, shape, a, b), player)
                /\ query = [kind |-> "input", from |-> Some(from), jumps |-> <<>>, all |-> <<>>]
    /\ last = NoCall
    /\ njumps = 0
    /\ ai = NoAi
    /\ app = NoApp
    /\ hash = NoHash
    /\ imported = NoImport

QueryJumps ==
    /\ query.kind = "input"
    /\ query' = [query EXCEPT !.kind = "result",
                              !.jumps = valid_jumps_from(state, query.from[1]),
                              !.all = all_valid_jumps(state)]
    /\ UNCHANGED <<state, last, njumps, ai, app, hash, imported>>

NextJumps == QueryJumps

SpecJumps == InitJumps /\ [][NextJumps]_vars

(***************************************************************************)
(* Unchecked callers: apply_opening_removal with any position of the board *)
(* and apply_jump with any straight-line jump of the board, in any phase.  *)
(* The starting states are GameState::new and the fixture the unit tests   *)
(* build from it with change_phase; an unchecked call ends the behaviour.  *)
(***************************************************************************)
Delta(d) ==
    CASE d = Up    -> <<1, 0>>
      [] d = Down  -> <<-1, 0>>
      [] d = Left  -> <<0, -1>>
      [] d = Right -> <<0, 1>>

\* pos moved k steps in direction d, in or out of the board
Adv(pos, d, k) == <<pos[1] + k * Delta(d)[1], pos[2] + k * Delta(d)[2]>>

InBounds(n, pos) == pos[1] \in 0..(n - 1) /\ pos[2] \in 0..(n - 1)

\* the jump value with k captures from `from` in direction d
LineJump(from, d, k) ==
    Jump(from, Adv(from, d, 2 * k), d, [i \in 1..k |-> Adv(from, d, 2 * i - 1)])

JumpShapes(n) ==
    {LineJump(x[1], x[2], x[3]) :
        x \in {y \in Positions(n) \X Range(Direction_all) \X (1..(n \div 2)) :
                 InBounds(n, Adv(y[1], y[2], 2 * y[3]))}}

InitCalls ==
    /\ \E n \in Sizes : \E p \in GamePhase : state = change_phase(GameState_new(n), p)
    /\ last = NoCall
    /\ njumps = 0
    /\ query = NoQuery
    /\ ai = NoAi
    /\ app = NoApp
    /\ hash = NoHash
    /\ imported = NoImport

PlayedJump ==
    /\ last.checked
    /\ state.phase = Play
    /\ njumps < MaxCallMoves
    /\ \E jump \in Range(all_valid_jumps(state)) : CallJump(jump, TRUE)

AnyRemovalCall ==
    /\ last.checked
    /\ \E pos \in Positions(state.board.size) : CallOpeningRemoval(pos, FALSE)

AnyJumpCall ==
    /\ last.checked
    /\ \E jump \in JumpShapes(state.board.size) : CallJump(jump, FALSE)

NextCalls == BlackRemoval \/ WhiteRemoval \/ PlayedJump \/ AnyRemovalCall \/ AnyJumpCall

SpecCalls == InitCalls /\ [][NextCalls]_vars

(***************************************************************************)
(* The opening on stripped boards: the fixture of the unit tests, a fresh  *)
(* smallest board from which some pieces of one colour were taken with     *)
(* remove_stone, followed by the two opening removals.                     *)
(***************************************************************************)
RECURSIVE StripAll(_, _)
StripAll(s, cells) ==
    IF cells = {} THEN s
    ELSE LET pos == CHOOSE p \in cells : TRUE
         IN  StripAll(remove_stone(s, pos), cells \ {pos})

PiecesOf(board, colour) ==
    {p \in Positions(board.size) : Board_get_piece_color(board, p) = Some(colour)}

InitStripped ==
    /\ \E colour \in PieceColor :
          \E cells \in SUBSET PiecesOf(Board_new(MinSize), colour) :
             state = StripAll(GameState_new(MinSize), cells)
    /\ last = NoCall
    /\ njumps = 0
    /\ query = NoQuery
    /\ ai = NoAi
    /\ app = NoApp
    /\ hash = NoHash
    /\ imported = NoImport

NextStripped == BlackRemoval \/ WhiteRemoval

SpecStripped == InitStripped /\ [][NextStripped]_vars

(***************************************************************************)
(* The AI player (ai.rs).  KonaneState wraps a GameState with the action   *)
(* that produced it; the generator lists the successors of a state; the    *)
(* search of the game_player crate picks one of the root's successors.     *)
(***************************************************************************)
KonaneAction_OpeningRemoval(pos) ==
    [action |-> "OpeningRemoval", pos |-> Some(pos), jump |-> None]

KonaneAction_Jump(jump) ==
    [action |-> "Jump", pos |-> None, jump |-> Some(jump)]

PlayerMove_OpeningRemoval(pos) ==
    [move |-> "OpeningRemoval", pos |-> Some(pos), jump |-> None]

PlayerMove_Jump(jump) ==
    [move |-> "Jump", pos |-> None, jump |-> Some(jump)]

KonaneState(inner, last_action) == [inner |-> inner, last_action |-> last_action]

KonaneState_is_terminal(ks) == ks.inner.phase.name = "GameOver"

\* a slip: the action is not recorded in the new state
KonaneState_apply_unrecorded(ks, action) ==
    LET new_state ==
          IF action.action = "OpeningRemoval"
          THEN apply_opening_removal(ks.inner, action.pos[1]).state
          ELSE apply_jump(ks.inner, action.jump[1]).state
    IN  KonaneState(new_state, ks.last_action)

\* the result of apply_opening_removal is dropped, an Err included
KonaneState_apply(ks, action) ==
    LET new_state ==
          IF action.action = "OpeningRemoval"
          THEN apply_opening_removal(ks.inner, action.pos[1]).state
          ELSE apply_jump(ks.inner, action.jump[1]).state
    IN  KonaneState(new_state, Some(action))

\* the actions of a sequence of positions and of a sequence of jumps
RemovalActions(positions) ==
    [i \in 1..Len(positions) |-> KonaneAction_OpeningRemoval(positions[i])]

JumpActions(jumps) == [i \in 1..Len(jumps) |-> KonaneAction_Jump(jumps[i])]

\* into_iter().map(|x| Box::new(state.apply(&action))).collect()
Successors(ks, actions) ==
    [i \in 1..Len(actions) |-> KonaneState_apply(ks, actions[i])]

\* a generator that takes the removal query of the other opening phase
KonaneMoveGenerator_generate_swapped(ks) ==
    Successors(ks,
        CASE ks.inner.phase = OpeningBlackRemoval ->
               RemovalActions(valid_white_opening_removals(ks.inner))
          [] ks.inner.phase = OpeningWhiteRemoval ->
               RemovalActions(valid_black_opening_removals(ks.inner))
          [] ks.inner.phase = Play -> JumpActions(all_valid_jumps(ks.inner))
          [] OTHER -> <<>>)

\* a generator that still offers removals outside the three playing phases
KonaneMoveGenerator_generate_anyphase(ks) ==
    Successors(ks,
        CASE ks.inner.phase = OpeningBlackRemoval ->
               RemovalActions(valid_black_opening_removals(ks.inner))
          [] ks.inner.phase = OpeningWhiteRemoval ->
               RemovalActions(valid_white_opening_removals(ks.inner))
          [] ks.inner.phase = Play -> JumpActions(all_valid_jumps(ks.inner))
          [] OTHER -> RemovalActions(valid_black_opening_removals(ks.inner)))

\* each arm maps the moves of its query to the states they lead to
KonaneMoveGenerator_generate(ks) ==
    Successors(ks,
        CASE ks.inner.phase = OpeningBlackRemoval ->
               RemovalActions(valid_black_opening_removals(ks.inner))
          [] ks.inner.phase = OpeningWhiteRemoval ->
               RemovalActions(valid_white_opening_removals(ks.inner))
          [] ks.inner.phase = Play -> JumpActions(all_valid_jumps(ks.inner))
          [] OTHER -> <<>>)

\* BestOf is the result of game_player::minimax::search: no result when the root has no successor,
\* otherwise the successor it rates best; which one that is depends on the
\* evaluator, the depth and the transposition table, so every successor is
\* a possible result
BestOf(responses) ==
    IF Len(responses) = 0 THEN {None}
    ELSE {Some(responses[i]) : i \in 1..Len(responses)}

search(ks, depth) == BestOf(KonaneMoveGenerator_generate(ks))

PlayerMoveOf(action) ==
    IF action.action = "OpeningRemoval"
    THEN PlayerMove_OpeningRemoval(action.pos[1])
    ELSE PlayerMove_Jump(action.jump[1])

\* the Option<PlayerMove> read from a search result
MoveOfResult(result) ==
    IF result = None THEN None
    ELSE IF result[1].last_action = None THEN None
    ELSE Some(PlayerMoveOf(result[1].last_action[1]))

\* the set of values AiPlayer::compute_move can return
compute_move(s, depth) ==
    {MoveOfResult(result) : result \in search(KonaneState(s, None), depth)}

(***************************************************************************)
(* compute_move called on the states of a game: the game starts from       *)
(* GameState::new or the change_phase fixture of the unit tests, is played *)
(* with moves taken from the queries, and ends with one compute_move call  *)
(* of depth 1..MaxDepth, described by `ai`.                                *)
(***************************************************************************)
InitAi ==
    /\ \E n \in Sizes : \E p \in GamePhase : state = change_phase(GameState_new(n), p)
    /\ last = NoCall
    /\ njumps = 0
    /\ query = NoQuery
    /\ ai = NoAi
    /\ app = NoApp
    /\ hash = NoHash
    /\ imported = NoImport

AiBlackRemoval == ai = NoAi /\ BlackRemoval

AiWhiteRemoval == ai = NoAi /\ WhiteRemoval

AiJumpMove == ai = NoAi /\ state.phase = Play /\ JumpMove

ComputeMove ==
    /\ ai = NoAi
    /\ \E depth \in 1..MaxDepth : \E result \in compute_move(state, depth) :
          ai' = [op |-> "compute_move", depth |-> depth, root |-> Some(state),
                 result |-> result]
    /\ UNCHANGED <<state, last, njumps, query, app, hash, imported>>

NextAi == AiBlackRemoval \/ AiWhiteRemoval \/ AiJumpMove \/ ComputeMove

SpecAi == InitAi /\ [][NextAi]_vars

(***************************************************************************)
(* The application (ui/app.rs).  `app` is the KonaneApp of a game started  *)
(* on the smallest board; `state` is the game state it holds, and `ai` is  *)
(* the search running on the background worker: root is the clone of the   *)
(* state it was started with, result the message it will deliver.  Of the  *)
(* board view only the selection is modelled; the status line, the         *)
(* animations and the game-over view are not.                              *)
(* ai_move describes the last AiMoveComputed(Some(move)) handled: the      *)
(* move, the state it was computed from and the state it was applied to.   *)
(***************************************************************************)
PlayerType == {"Human", "Ai"}

Saved(s, history) == [state |-> s, history |-> history]

KonaneApp_new(s, black, white, depth) ==
    [view              |-> "Playing",
     game_state        |-> Some(s),
     move_history      |-> <<>>,
     undo_stack        |-> <<>>,
     redo_stack        |-> <<>>,
     black_player_type |-> black,
     white_player_type |-> white,
     ai_computing      |-> FALSE,
     ai_depth          |-> depth,
     selection         |-> None,
     ai_move           |-> None]

Front(seq) == SubSeq(seq, 1, Len(seq) - 1)

save_state_for_undo(k) ==
    IF k.game_state = None THEN k
    ELSE [k EXCEPT !.undo_stack = Append(@, Saved(k.game_state[1], k.move_history)),
                   !.redo_stack = <<>>]

\* a slip: the state left behind is not kept for Redo
handle_undo_forgetful(k) ==
    IF k.undo_stack = <<>> THEN k
    ELSE LET previous == k.undo_stack[Len(k.undo_stack)]
         IN  [k EXCEPT !.undo_stack = Front(@),
                       !.game_state = Some(previous.state),
                       !.move_history = previous.history,
                       !.selection = None]

handle_undo(k) ==
    IF k.undo_stack = <<>> THEN k
    ELSE LET previous == k.undo_stack[Len(k.undo_stack)]
         IN  [k EXCEPT !.undo_stack = Front(@),
                       !.redo_stack = IF k.game_state = None THEN @
                                      ELSE Append(@, Saved(k.game_state[1], k.move_history)),
                       !.game_state = Some(previous.state),
                       !.move_history = previous.history,
                       !.selection = None]

handle_redo(k) ==
    IF k.redo_stack = <<>> THEN k
    ELSE LET next == k.redo_stack[Len(k.redo_stack)]
         IN  [k EXCEPT !.redo_stack = Front(@),
                       !.undo_stack = IF k.game_state = None THEN @
                                      ELSE Append(@, Saved(k.game_state[1], k.move_history)),
                       !.game_state = Some(next.state),
                       !.move_history = next.history,
                       !.selection = None]

is_current_player_ai(k) ==
    IF k.game_state = None THEN FALSE
    ELSE IF k.game_state[1].current_player = Black
         THEN k.black_player_type = "Ai"
         ELSE k.white_player_type = "Ai"

\* the app after a rules call that returned r
AfterRemoval(k, r) ==
    [k EXCEPT !.game_state = Some(r.state),
              !.move_history = IF r.ok THEN Append(@, r.record[1]) ELSE @,
              !.selection = None]

AfterJump(k, r) ==
    [k EXCEPT !.game_state = Some(r.state),
              !.move_history = Append(@, r.record),
              !.selection = None]

\* save the state, call apply_opening_removal, keep the record of an Ok
RemovalByApp(k, pos) ==
    AfterRemoval(save_state_for_undo(k), apply_opening_removal(k.game_state[1], pos))

\* save the state, call apply_jump, keep its record
JumpByApp(k, jump) ==
    AfterJump(save_state_for_undo(k), apply_jump(k.game_state[1], jump))

\* BoardView::select_piece and BoardView::clear_selection
PieceSelected(pos, jumps) == Some([pos |-> pos, jumps |-> jumps])

\* in the Play phase a click only changes the selection of the board view:
\* a piece with jumps is selected, any other click clears the selection
handle_cell_click(k, pos) ==
    IF k.game_state = None THEN k
    ELSE LET s == k.game_state[1]
             valid ==
               CASE s.phase = OpeningBlackRemoval ->
                      Contains(valid_black_opening_removals(s), pos)
                 [] s.phase = OpeningWhiteRemoval ->
                      Contains(valid_white_opening_removals(s), pos)
                 [] OTHER -> FALSE
         IN  IF valid THEN RemovalByApp(k, pos)
             ELSE IF s.phase = Play
             THEN [k EXCEPT !.selection =
                     IF valid_jumps_from(s, pos) # <<>>
                     THEN PieceSelected(pos, valid_jumps_from(s, pos)) ELSE None]
             ELSE k

handle_jump_selected(k, jump) ==
    IF k.game_state = None THEN k ELSE JumpByApp(k, jump)

\* the app after the call, and whether a search was spawned on the worker
Spawned(k, spawn) == [app |-> k, spawn |-> spawn]

maybe_trigger_ai_move(k) ==
    IF k.ai_computing THEN Spawned(k, FALSE)
    ELSE IF k.game_state = None THEN Spawned(k, FALSE)
    ELSE IF k.game_state[1].phase.name = "GameOver" THEN Spawned(k, FALSE)
    ELSE IF ~is_current_player_ai(k) THEN Spawned(k, FALSE)
    ELSE Spawned([k EXCEPT !.ai_computing = TRUE], TRUE)

\* the end of handle_board and handle_ai_move
GameOverOrTrigger(k) ==
    IF k.game_state # None /\ k.game_state[1].phase.name = "GameOver"
    THEN Spawned([k EXCEPT !.view = "GameOver"], FALSE)
    ELSE maybe_trigger_ai_move(k)

BoardMessage_CellClicked(pos) == [msg |-> "CellClicked", pos |-> Some(pos), jump |-> None]

BoardMessage_JumpSelected(jump) == [msg |-> "JumpSelected", pos |-> None, jump |-> Some(jump)]

BoardMessage_Undo == [msg |-> "Undo", pos |-> None, jump |-> None]

BoardMessage_Redo == [msg |-> "Redo", pos |-> None, jump |-> None]

\* a slip: input is not blocked while the AI is at work
handle_board_unblocked(k, msg) ==
    IF k.game_state = None THEN Spawned(k, FALSE)
    ELSE GameOverOrTrigger(
           CASE msg.msg = "CellClicked"  -> handle_cell_click(k, msg.pos[1])
             [] msg.msg = "JumpSelected" -> handle_jump_selected(k, msg.jump[1])
             [] msg.msg = "Undo"         -> handle_undo(k)
             [] msg.msg = "Redo"         -> handle_redo(k))

handle_board(k, msg) ==
    IF k.game_state = None THEN Spawned(k, FALSE)
    ELSE IF (k.ai_computing \/ is_current_player_ai(k)) /\ msg.msg \notin {"Undo", "Redo"}
    THEN Spawned(k, FALSE)
    ELSE GameOverOrTrigger(
           CASE msg.msg = "CellClicked"  -> handle_cell_click(k, msg.pos[1])
             [] msg.msg = "JumpSelected" -> handle_jump_selected(k, msg.jump[1])
             [] msg.msg = "Undo"         -> handle_undo(k)
             [] msg.msg = "Redo"         -> handle_redo(k))

\* root is the state the delivered move was computed from
handle_ai_move(k, maybe_move, root) ==
    LET k0 == [k EXCEPT !.ai_computing = FALSE]
    IN  IF maybe_move = None THEN Spawned(k0, FALSE)
        ELSE IF k0.game_state = None THEN Spawned(k0, FALSE)
        ELSE LET mv == maybe_move[1]
                 k1 == IF mv.move = "OpeningRemoval"
                       THEN RemovalByApp(k0, mv.pos[1])
                       ELSE JumpByApp(k0, mv.jump[1])
                 k2 == [k1 EXCEPT !.ai_move =
                          Some([move |-> mv, root |-> root, onto |-> k0.game_state[1]])]
             IN  GameOverOrTrigger(k2)

\* StartGame on the smallest board with any assignment of the two players
InitApp ==
    /\ state = GameState_new(MinSize)
    /\ \E black \in PlayerType : \E white \in PlayerType :
          LET started == maybe_trigger_ai_move(
                            KonaneApp_new(state, black, white, MaxDepth))
          IN  /\ app = started.app
              /\ IF started.spawn
                 THEN \E result \in compute_move(state, MaxDepth) :
                         ai = [op |-> "request_move", depth |-> MaxDepth,
                               root |-> Some(state), result |-> result]
                 ELSE ai = NoAi
    /\ last = NoCall
    /\ njumps = 0
    /\ query = NoQuery
    /\ hash = NoHash
    /\ imported = NoImport

\* the handler ran and left `done`; delivered tells that the worker's
\* message was consumed by it
Handled(done, delivered) ==
    /\ Len(done.app.undo_stack) <= MaxUndo
    /\ app' = done.app
    /\ state' = done.app.game_state[1]
    /\ IF done.spawn
       THEN \E result \in compute_move(done.app.game_state[1], done.app.ai_depth) :
               ai' = [op |-> "request_move", depth |-> done.app.ai_depth,
                      root |-> done.app.game_state, result |-> result]
       ELSE ai' = IF delivered THEN NoAi ELSE ai
    /\ UNCHANGED <<last, njumps, query, hash, imported>>

\* the messages the board view can send: a click on a cell, a jump of the
\* selected piece (the view offers the valid jumps of the state), Undo, Redo
BoardMessages(s) ==
    {BoardMessage_CellClicked(pos) : pos \in Positions(s.board.size)}
      \cup (IF s.phase = Play
            THEN {BoardMessage_JumpSelected(jump) : jump \in Range(all_valid_jumps(s))}
            ELSE {})
      \cup {BoardMessage_Undo, BoardMessage_Redo}

BoardMessage ==
    /\ app.view = "Playing"
    /\ \E msg \in BoardMessages(state) : Handled(handle_board(app, msg), FALSE)

AiMoveComputed ==
    /\ ai.op = "request_move"
    /\ Handled(handle_ai_move(app, ai.result, ai.root[1]), TRUE)

NextApp == BoardMessage \/ AiMoveComputed

SpecApp == InitApp /\ [][NextApp]_vars

(***************************************************************************)
(* A session of the application: games are started from the setup view,    *)
(* played on the smallest board and dismissed when they are over.  `ai`    *)
(* is the background worker: game counts the games started, pending holds  *)
(* the searches whose AiMoveComputed message has not been handled yet,     *)
(* each with the game and the state it was started on, delivered          *)
(* describes the message handled last when it was an AiMoveComputed, and   *)
(* handled counts the messages that changed something.  The               *)
(* board is drawn under the game-over overlay with its Undo and Redo       *)
(* buttons, and handle_board does not look at the view.                    *)
(***************************************************************************)
\* KonaneApp::new: the setup view, no game yet
KonaneApp_default(depth) ==
    [view              |-> "Setup",
     game_state        |-> None,
     move_history      |-> <<>>,
     undo_stack        |-> <<>>,
     redo_stack        |-> <<>>,
     black_player_type |-> "Human",
     white_player_type |-> "Human",
     ai_computing      |-> FALSE,
     ai_depth          |-> depth,
     selection         |-> None,
     ai_move           |-> None]

handle_setup_StartGame(k, black, white) ==
    maybe_trigger_ai_move(KonaneApp_new(GameState_new(MinSize), black, white, k.ai_depth))

handle_game_over_Dismiss(k) ==
    [k EXCEPT !.view = "Setup", !.game_state = None, !.selection = None]

SearchTask(game, root, result) == [game |-> game, root |-> root, result |-> result]

Worker(game, pending, delivered, handled) ==
    [op |-> "session", game |-> game, pending |-> pending, delivered |-> delivered,
     handled |-> handled]

Without(seq, i) == SubSeq(seq, 1, i - 1) \o SubSeq(seq, i + 1, Len(seq))

\* the first message the board view sends in honest play: a click on the
\* first cell the rules offer in an opening phase, the first jump in Play
FirstOffered(s) ==
    CASE s.phase = OpeningBlackRemoval ->
           BoardMessage_CellClicked(valid_black_opening_removals(s)[1])
      [] s.phase = OpeningWhiteRemoval ->
           BoardMessage_CellClicked(valid_white_opening_removals(s)[1])
      [] OTHER -> BoardMessage_JumpSelected(all_valid_jumps(s)[1])

\* the apps one move later in a game played without Undo: the pending
\* search delivers its move, or the human sends the first offered message
Continued(k) ==
    IF k.view # "Playing" THEN {}
    ELSE IF k.ai_computing
    THEN {handle_ai_move(k, result, k.game_state[1]).app :
            result \in compute_move(k.game_state[1], k.ai_depth)}
    ELSE {handle_board(k, FirstOffered(k.game_state[1])).app}

\* the apps n moves into a game of a human (Black) against the AI
RECURSIVE Played(_)
Played(n) ==
    IF n = 0 THEN {handle_setup_StartGame(KonaneApp_default(1), "Human", "Ai").app}
    ELSE UNION {Continued(k) : k \in Played(n - 1)}

\* a session is followed from the setup view of a new application, or from
\* a first game of up to MaxPlayed moves played without Undo
InitSession ==
    /\ \/ /\ app = KonaneApp_default(1)
          /\ state = GameState_new(MinSize)
          /\ ai = Worker(0, <<>>, None, 0)
       \/ \E n \in 0..MaxPlayed : \E k \in Played(n) :
             /\ app = k
             /\ state = k.game_state[1]
             /\ IF k.ai_computing
                THEN \E result \in compute_move(k.game_state[1], k.ai_depth) :
                        ai = Worker(1, <<SearchTask(1, k.game_state[1], result)>>, None, 0)
                ELSE ai = Worker(1, <<>>, None, 0)
    /\ last = NoCall
    /\ njumps = 0
    /\ query = NoQuery
    /\ hash = NoHash
    /\ imported = NoImport

\* a handler ran and left `done`; rest are the searches still running,
\* game the number of the current game
SessionHandled(done, rest, game, delivered) ==
    /\ ai.handled < MaxMessages
    /\ app' = done.app
    /\ state' = IF done.app.game_state = None THEN state ELSE done.app.game_state[1]
    /\ IF done.spawn
       THEN /\ Len(rest) < MaxTasks
            /\ \E result \in compute_move(done.app.game_state[1], done.app.ai_depth) :
                  ai' = Worker(game,
                               Append(rest, SearchTask(game, done.app.game_state[1], result)),
                               delivered, ai.handled + 1)
       ELSE ai' = Worker(game, rest, delivered, ai.handled + 1)
    /\ UNCHANGED <<last, njumps, query, hash, imported>>

SessionStartGame ==
    /\ app.view = "Setup"
    /\ ai.game < MaxGames
    /\ \E black \in PlayerType : \E white \in PlayerType :
          SessionHandled(handle_setup_StartGame(app, black, white),
                         ai.pending, ai.game + 1, None)

\* the cells clicked in a session: in an opening phase the first
\* MaxClicks cells the rules offer, and the cell (0, 1) in every phase
SessionClicks(s) ==
    LET offered == CASE s.phase = OpeningBlackRemoval -> valid_black_opening_removals(s)
                     [] s.phase = OpeningWhiteRemoval -> valid_white_opening_removals(s)
                     [] OTHER -> <<>>
    IN  {offered[i] : i \in {j \in 1..Len(offered) : j <= MaxClicks}}
          \cup {Position_new(0, 1)}

\* the messages of the board view followed in a session: these clicks,
\* the first jump the rules offer, Undo and Redo
SessionMessages(s) ==
    {BoardMessage_CellClicked(pos) : pos \in SessionClicks(s)}
      \cup (IF s.phase = Play /\ all_valid_jumps(s) # <<>>
            THEN {BoardMessage_JumpSelected(all_valid_jumps(s)[1])}
            ELSE {})
      \cup {BoardMessage_Undo, BoardMessage_Redo}

SessionBoard ==
    /\ app.view \in {"Playing", "GameOver"}
    /\ \E msg \in SessionMessages(state) :
          SessionHandled(handle_board(app, msg), ai.pending, ai.game, None)

SessionAiMove ==
    \E i \in 1..Len(ai.pending) :
       SessionHandled(handle_ai_move(app, ai.pending[i].result, ai.pending[i].root),
                      Without(ai.pending, i), ai.game,
                      Some([task    |-> ai.pending[i],
                            game    |-> ai.game,
                            applied |-> app.game_state # None
                                          /\ ai.pending[i].result # None]))

SessionDismiss ==
    /\ app.view = "GameOver"
    /\ SessionHandled(Spawned(handle_game_over_Dismiss(app), FALSE),
                      ai.pending, ai.game, None)

NextSession == SessionStartGame \/ SessionBoard \/ SessionAiMove \/ SessionDismiss

SpecSession == InitSession /\ [][NextSession]_vars

(***************************************************************************)
(* import.rs: replay of a game log.  An ImportedGame is the deserialized   *)
(* file: board_size, an optional winner string and the move records.  A    *)
(* string is the sequence of its characters.  A Result is a record with    *)
(* ok; an error is [move |-> the 1-based number in "Move n: ...", or 0,    *)
(* text |-> the rest of the message].                                      *)
(***************************************************************************)
NoError == [move |-> 0, text |-> ""]

Error(move_number, text) == [move |-> move_number, text |-> text]

UpperCase == <<"A", "B", "C", "D", "E", "F", "G", "H", "I", "J", "K", "L", "M",
               "N", "O", "P", "Q", "R", "S", "T", "U", "V", "W", "X", "Y", "Z">>

LowerCase == <<"a", "b", "c", "d", "e", "f", "g", "h", "i", "j", "k", "l", "m",
               "n", "o", "p", "q", "r", "s", "t", "u", "v", "w", "x", "y", "z">>

char_to_lowercase(ch) ==
    IF \E i \in 1..Len(UpperCase) : UpperCase[i] = ch
    THEN LowerCase[CHOOSE i \in 1..Len(UpperCase) : UpperCase[i] = ch]
    ELSE ch

to_lowercase(str) == [i \in 1..Len(str) |-> char_to_lowercase(str[i])]

\* Display of PieceColor, as the characters of the name
PieceColor_to_string(c) ==
    IF c = Black THEN <<"B", "l", "a", "c", "k">> ELSE <<"W", "h", "i", "t", "e">>

\* a slip: the name is compared as it was written
parse_winner_color_exact(winner) ==
    CASE winner = <<"b", "l", "a", "c", "k">> -> [ok |-> TRUE, color |-> Black, error |-> NoError]
      [] winner = <<"w", "h", "i", "t", "e">> -> [ok |-> TRUE, color |-> White, error |-> NoError]
      [] OTHER -> [ok |-> FALSE, color |-> Black,
                   error |-> Error(0, "Invalid winner: must be \"Black\" or \"White\"")]

\* color is meaningful only when ok
parse_winner_color(winner) ==
    CASE to_lowercase(winner) = <<"b", "l", "a", "c", "k">> ->
           [ok |-> TRUE, color |-> Black, error |-> NoError]
      [] to_lowercase(winner) = <<"w", "h", "i", "t", "e">> ->
           [ok |-> TRUE, color |-> White, error |-> NoError]
      [] OTHER -> [ok |-> FALSE, color |-> Black,
                   error |-> Error(0, "Invalid winner: must be \"Black\" or \"White\"")]

\* a slip: a winner is accepted whenever the game is over
validate_winner_anyover(s, winner) ==
    IF winner = None THEN NoError
    ELSE LET parsed == parse_winner_color(winner[1])
         IN  IF ~parsed.ok THEN parsed.error
             ELSE IF s.phase.name = "GameOver" THEN NoError
             ELSE Error(0, "Winner specified but game is not over")

\* the error of the Err, NoError for Ok(())
validate_winner(s, winner) ==
    IF winner = None THEN NoError
    ELSE LET parsed == parse_winner_color(winner[1])
         IN  IF ~parsed.ok THEN parsed.error
             ELSE IF s.phase.name = "GameOver"
                  THEN IF s.phase.winner # parsed.color
                       THEN Error(0, "Winner mismatch")
                       ELSE NoError
                  ELSE Error(0, "Winner specified but game is not over")

validate_board_size(board_size) ==
    IF ~(board_size \in 4..16) \/ board_size % 2 # 0
    THEN Error(0, "Invalid board_size: must be even and between 4 and 16")
    ELSE NoError

validate_position_in_bounds(s, position, move_number, label) ==
    IF position[1] >= s.board.size \/ position[2] >= s.board.size
    THEN Error(move_number, label \o " is out of bounds")
    ELSE NoError

\* a slip: the colour of the record is not compared with the side to move
validate_opening_removal_anycolor(s, color, position, move_number) ==
    IF s.phase \notin {OpeningBlackRemoval, OpeningWhiteRemoval}
    THEN Error(move_number, "Opening removal not allowed during " \o s.phase.name)
    ELSE validate_position_in_bounds(s, position, move_number, "Position")

validate_opening_removal(s, color, position, move_number) ==
    IF s.phase \notin {OpeningBlackRemoval, OpeningWhiteRemoval}
    THEN Error(move_number, "Opening removal not allowed during " \o s.phase.name)
    ELSE IF color # s.current_player
    THEN Error(move_number, "Expected " \o s.current_player \o " to move, got " \o color)
    ELSE validate_position_in_bounds(s, position, move_number, "Position")

\* the first error of the bounds checks of a sequence of positions
RECURSIVE CapturedInBounds(_, _, _, _)
CapturedInBounds(s, captured, i, move_number) ==
    IF i > Len(captured) THEN NoError
    ELSE LET e == validate_position_in_bounds(s, captured[i], move_number, "Captured position")
         IN  IF e # NoError THEN e
             ELSE CapturedInBounds(s, captured, i + 1, move_number)

\* find: the index of the first jump with this destination and these
\* captures, 0 when there is none
RECURSIVE FindJump(_, _, _, _)
FindJump(valid_jumps, to, captured, i) ==
    IF i > Len(valid_jumps) THEN 0
    ELSE IF valid_jumps[i].to = to /\ valid_jumps[i].captured = captured THEN i
    ELSE FindJump(valid_jumps, to, captured, i + 1)

\* the checks of validate_jump that come before the search of the jump
JumpChecks(s, color, from, to, captured, move_number) ==
    IF s.phase # Play
    THEN Error(move_number, "Jump not allowed during " \o s.phase.name)
    ELSE IF color # s.current_player
    THEN Error(move_number, "Expected " \o s.current_player \o " to move, got " \o color)
    ELSE IF validate_position_in_bounds(s, from, move_number, "From position") # NoError
    THEN validate_position_in_bounds(s, from, move_number, "From position")
    ELSE IF validate_position_in_bounds(s, to, move_number, "To position") # NoError
    THEN validate_position_in_bounds(s, to, move_number, "To position")
    ELSE IF captured = <<>>
    THEN Error(move_number, "Jump must capture at least one piece")
    ELSE CapturedInBounds(s, captured, 1, move_number)

\* the Jump of an Ok is valid_jumps[found]
JumpFound(valid_jumps, found, move_number) ==
    IF found = 0
    THEN [ok |-> FALSE, jump |-> None, error |-> Error(move_number, "Invalid jump")]
    ELSE [ok |-> TRUE, jump |-> Some(valid_jumps[found]), error |-> NoError]

JumpChecked(s, checks, from, to, captured, move_number) ==
    IF checks # NoError THEN [ok |-> FALSE, jump |-> None, error |-> checks]
    ELSE JumpFound(valid_jumps_from(s, from),
                   FindJump(valid_jumps_from(s, from), to, captured, 1), move_number)

validate_jump(s, color, from, to, captured, move_number) ==
    JumpChecked(s, JumpChecks(s, color, from, to, captured, move_number),
                from, to, captured, move_number)

\* Result<MoveRecord, String> with the state after the call
Applied(s, ok, record, error) == [state |-> s, ok |-> ok, record |-> record, error |-> error]

\* apply_opening_removal after validate_opening_removal returned e
RemovalReplayed(s, e, r, move_number) ==
    IF e # NoError THEN Applied(s, FALSE, None, e)
    ELSE IF ~r.ok THEN Applied(r.state, FALSE, None, Error(move_number, r.error))
    ELSE Applied(r.state, TRUE, r.record, NoError)

\* apply_jump with the jump validate_jump returned
JumpApplication(r) == Applied(r.state, TRUE, Some(r.record), NoError)

JumpReplayed(s, v) ==
    IF ~v.ok THEN Applied(s, FALSE, None, v.error)
    ELSE JumpApplication(apply_jump(s, v.jump[1]))

validate_and_apply_move(s, record, move_number) ==
    IF record.kind = "OpeningRemoval"
    THEN RemovalReplayed(s,
            validate_opening_removal(s, record.color, record.position, move_number),
            apply_opening_removal(s, record.position), move_number)
    ELSE JumpReplayed(s,
            validate_jump(s, record.color, record.from, record.to,
                          record.captured, move_number))

\* Result<(GameState, MoveHistory, UndoRedoStack), String>; examined is the
\* number of records the loop took from the log
Imported(ok, s, move_history, undo_stack, error, examined) ==
    [ok |-> ok, state |-> s, move_history |-> move_history,
     undo_stack |-> undo_stack, error |-> error, examined |-> examined]

RECURSIVE ReplayFrom(_, _, _, _, _)
\* a slip: the state is saved after the move was applied
ReplayStep_late(moves, index, a, move_history, pushed) ==
    IF ~a.ok THEN Imported(FALSE, None, <<>>, <<>>, a.error, index + 1)
    ELSE ReplayFrom(a.state, Append(move_history, a.record[1]),
                    Append(Front(pushed), Saved(a.state, move_history)),
                    moves, index + 1)

\* the step of the loop on record index + 1, and the rest of the loop
ReplayStep(moves, index, a, move_history, pushed) ==
    IF ~a.ok THEN Imported(FALSE, None, <<>>, <<>>, a.error, index + 1)
    ELSE ReplayFrom(a.state, Append(move_history, a.record[1]), pushed, moves, index + 1)

\* the for loop from record index + 1 on, then the caller's return value
\* but for the winner check
ReplayFrom(s, move_history, undo_stack, moves, index) ==
    IF index >= Len(moves)
    THEN Imported(TRUE, Some(s), move_history, undo_stack, NoError, index)
    ELSE ReplayStep(moves, index,
                    validate_and_apply_move(s, moves[index + 1], index + 1),
                    move_history,
                    Append(undo_stack, Saved(s, move_history)))

WinnerChecked(replayed, e) ==
    IF ~replayed.ok THEN replayed
    ELSE IF e # NoError
    THEN Imported(FALSE, None, <<>>, <<>>, e, replayed.examined)
    ELSE replayed

\* the validate_winner call sees the state only after a full replay
WinnerOf(replayed, winner) ==
    IF replayed.ok THEN validate_winner(replayed.state[1], winner) ELSE NoError

Replayed(replayed, winner) == WinnerChecked(replayed, WinnerOf(replayed, winner))

\* content is the deserialized ImportedGame
import_game_from_content(content) ==
    IF validate_board_size(content.board_size) # NoError
    THEN Imported(FALSE, None, <<>>, <<>>, validate_board_size(content.board_size), 0)
    ELSE Replayed(ReplayFrom(GameState_new(content.board_size), <<>>, <<>>,
                             content.moves, 0),
                  content.winner)

\* GameOverView::generate_json_log, as the fields import reads back
GameLog(board_size, winner, move_history) ==
    [board_size |-> board_size,
     winner     |-> Some(PieceColor_to_string(winner)),
     moves      |-> move_history]

(***************************************************************************)
(* Import of game logs.  state is a game played from GameState::new by the *)
(* rules and imported.moves the MoveRecords its apply calls returned.      *)
(* ImportGame hands import_game_from_content a file and ends the           *)
(* behaviour: the log as exported (with any winner field), the log with    *)
(* another board_size, a log of at most MaxLog records with one of them    *)
(* edited, or the log with a record added at its end.  imported.content is *)
(* the file and imported.result what the call returned.                    *)
(***************************************************************************)
NoResult == Imported(FALSE, None, <<>>, <<>>, NoError, 0)

Str(name) ==
    CASE name = "Black" -> <<"B", "l", "a", "c", "k">>
      [] name = "White" -> <<"W", "h", "i", "t", "e">>
      [] name = "BLACK" -> <<"B", "L", "A", "C", "K">>
      [] name = "white" -> <<"w", "h", "i", "t", "e">>
      [] name = "Draw"  -> <<"D", "r", "a", "w">>
      [] name = ""      -> <<>>

\* the winner fields of the files
Winners == {None} \cup {Some(Str(name)) : name \in {"Black", "White", "BLACK", "white", "Draw", ""}}

\* the board sizes of the files that are not the size of the game
OtherSizes == {0, 2, 5, MaxBoardSize + 1, MaxBoardSize + 2}

Reverse(seq) == [i \in 1..Len(seq) |-> seq[Len(seq) + 1 - i]]

\* the records an edit of the record rec of a game on a board of size n
\* can leave in its place
Edits(rec, n) ==
    IF rec.kind = "OpeningRemoval"
    THEN { OpeningRemovalRecord(opposite(rec.color), rec.position),
           OpeningRemovalRecord(rec.color, Position_new(n, rec.position[2])),
           OpeningRemovalRecord(rec.color, Position_new(rec.position[1], n)),
           JumpRecord(rec.color, rec.position, rec.position, <<rec.position>>) }
    ELSE { JumpRecord(opposite(rec.color), rec.from, rec.to, rec.captured),
           JumpRecord(rec.color, Position_new(n, rec.from[2]), rec.to, rec.captured),
           JumpRecord(rec.color, rec.from, Position_new(rec.to[1], n), rec.captured),
           JumpRecord(rec.color, rec.from, rec.to, <<>>),
           JumpRecord(rec.color, rec.from, rec.to, <<Position_new(n, n)>>),
           JumpRecord(rec.color, rec.from, rec.to, Reverse(rec.captured)),
           JumpRecord(rec.color, rec.from, rec.from, rec.captured),
           OpeningRemovalRecord(rec.color, rec.from) } \ {rec}

\* the records added at the end of a log
Additions ==
    UNION { { OpeningRemovalRecord(c, Position_new(0, 0)),
              JumpRecord(c, Position_new(0, 0), Position_new(0, 2),
                         <<Position_new(0, 1)>>) } : c \in PieceColor }

Replace(moves, i, rec) == [k \in 1..Len(moves) |-> IF k = i THEN rec ELSE moves[k]]

File(board_size, winner, moves) ==
    [board_size |-> board_size, winner |-> winner, moves |-> moves]

Files(n, moves) ==
    { File(n, winner, moves) : winner \in Winners }
    \cup { File(size, None, moves) : size \in OtherSizes \cup (Sizes \ {n}) }
    \cup UNION { { File(n, None, Replace(moves, i, rec)) : rec \in Edits(moves[i], n) } :
                 i \in IF Len(moves) <= MaxLog THEN 1..Len(moves) ELSE {} }
    \cup { File(n, None, Append(moves, rec)) : rec \in Additions }

InitImport ==
    /\ \E n \in Sizes : state = GameState_new(n)
    /\ last = NoCall
    /\ njumps = 0
    /\ query = NoQuery
    /\ ai = NoAi
    /\ app = NoApp
    /\ hash = NoHash
    /\ imported = [op |-> "log", moves |-> <<>>, content |-> File(0, None, <<>>),
                   result |-> NoResult]

\* the first MaxLog moves of a game are any the rules offer; on the smallest
\* board the game is then played to its end with the first jump offered
Offered(moves) ==
    IF Len(imported.moves) < MaxLog THEN moves
    ELSE IF state.board.size = MinSize /\ moves # <<>> THEN <<moves[1]>>
    ELSE <<>>

Logged(r) ==
    /\ state' = r.state
    /\ imported' = [imported EXCEPT !.moves = Append(@, r.record)]
    /\ UNCHANGED <<last, njumps, query, ai, app, hash>>

LoggedRemoval(r) == Logged([state |-> r.state, record |-> r.record[1]])

LogRemoval ==
    /\ imported.op = "log"
    /\ \E pos \in Range(Offered(IF state.phase = OpeningBlackRemoval
                                THEN valid_black_opening_removals(state)
                                ELSE IF state.phase = OpeningWhiteRemoval
                                THEN valid_white_opening_removals(state)
                                ELSE <<>>)) :
          LoggedRemoval(apply_opening_removal(state, pos))

LogJump ==
    /\ imported.op = "log"
    /\ state.phase = Play
    /\ \E jump \in Range(Offered(all_valid_jumps(state))) :
          Logged(apply_jump(state, jump))

ImportGame ==
    /\ imported.op = "log"
    /\ \E content \in Files(state.board.size, imported.moves) :
          imported' = [imported EXCEPT !.op = "import", !.content = content,
                                       !.result = import_game_from_content(content)]
    /\ UNCHANGED <<state, last, njumps, query, ai, app, hash>>

NextImport == LogRemoval \/ LogJump \/ ImportGame

SpecImport == InitImport /\ [][NextImport]_vars

(***************************************************************************)
(* ai.rs: the static evaluator.  The f32 scores are whole numbers and are  *)
(* modelled as integers.                                                   *)
(***************************************************************************)
alice_wins_value == 1000

bob_wins_value == 0 - 1000

\* a slip: the jumps are counted for the side that is to move
count_mobility_for_mover(s, color) ==
    IF s.phase = Play \/ s.phase.name = "GameOver"
    THEN Len(all_valid_jumps(s))
    ELSE 0

\* a slip: the jumps are counted whatever the phase is
count_mobility_for_anyphase(s, color) ==
    Len(all_valid_jumps(set_current_player(s, color)))

count_mobility_for(s, color) ==
    IF s.phase = Play \/ s.phase.name = "GameOver"
    THEN Len(all_valid_jumps(set_current_player(s, color)))
    ELSE 0

\* the part of evaluate after the GameOver test
Mobility(inner, black_mobility, white_mobility) ==
    IF inner.current_player = Black /\ black_mobility = 0 THEN bob_wins_value
    ELSE IF inner.current_player = White /\ white_mobility = 0 THEN alice_wins_value
    ELSE black_mobility - white_mobility

\* a slip: a finished game is scored for the side to move
KonaneEvaluator_evaluate_mover(ks) ==
    IF ks.inner.phase.name = "GameOver"
    THEN IF ks.inner.current_player = Black THEN alice_wins_value ELSE bob_wins_value
    ELSE Mobility(ks.inner, count_mobility_for(ks.inner, Black),
                  count_mobility_for(ks.inner, White))

KonaneEvaluator_evaluate(ks) ==
    IF ks.inner.phase.name = "GameOver"
    THEN IF ks.inner.phase.winner = Black THEN alice_wins_value ELSE bob_wins_value
    ELSE Mobility(ks.inner, count_mobility_for(ks.inner, Black),
                  count_mobility_for(ks.inner, White))

(***************************************************************************)
(* The evaluator and the move generator called on the states of games and  *)
(* of the fixtures of the unit tests: a fresh state put into any phase     *)
(* with change_phase, on the smallest board with up to MaxStripped stones  *)
(* removed with remove_stone and either side to move.  Generate and        *)
(* Evaluate end the behaviour; ai.root is the state they were called on,   *)
(* ai.responses what generate returned, ai.score what evaluate returned    *)
(* and ai.terminal what is_terminal returned.                              *)
(***************************************************************************)
NoEval ==
    [op |-> "none", root |-> None, responses |-> <<>>, score |-> 0,
     terminal |-> FALSE]

Fixtures ==
    {change_phase(GameState_new(n), p) : n \in Sizes, p \in GamePhase}
    \cup {set_current_player(StripAll(change_phase(GameState_new(MinSize), p), cells), c) :
            p \in {Play, GameOver(Black), GameOver(White)},
            cells \in {x \in SUBSET Positions(MinSize) : Cardinality(x) <= MaxStripped},
            c \in PieceColor}

InitEval ==
    /\ state \in Fixtures
    /\ last = NoCall
    /\ njumps = 0
    /\ query = NoQuery
    /\ ai = NoEval
    /\ app = NoApp
    /\ hash = NoHash
    /\ imported = NoImport

EvalBlackRemoval == ai.op = "none" /\ BlackRemoval

EvalWhiteRemoval == ai.op = "none" /\ WhiteRemoval

\* games are played for MaxMoves jumps on every board
EvalJumpMove == ai.op = "none" /\ state.phase = Play /\ njumps < MaxMoves /\ JumpMove

Generate ==
    /\ ai.op = "none"
    /\ ai' = [ai EXCEPT !.op = "generate",
                        !.root = Some(KonaneState(state, None)),
                        !.responses = KonaneMoveGenerator_generate(KonaneState(state, None))]
    /\ UNCHANGED <<state, last, njumps, query, app, hash, imported>>

Evaluate ==
    /\ ai.op = "none"
    /\ ai' = [ai EXCEPT !.op = "evaluate",
                        !.root = Some(KonaneState(state, None)),
                        !.score = KonaneEvaluator_evaluate(KonaneState(state, None)),
                        !.terminal = KonaneState_is_terminal(KonaneState(state, None))]
    /\ UNCHANGED <<state, last, njumps, query, app, hash, imported>>

NextEval == EvalBlackRemoval \/ EvalWhiteRemoval \/ EvalJumpMove \/ Generate \/ Evaluate

SpecEval == InitEval /\ [][NextEval]_vars

(***************************************************************************)
(* The fingerprint as a pure function.  InitHash draws a board, a phase    *)
(* and a side to move; FromState computes ZHash::from_state of them; then  *)
(* one of the four toggles is applied to the hash and applied again with   *)
(* its arguments reversed, which ends the behaviour.  hash.value is the    *)
(* hash from_state returned, hash.after the value after the toggle and     *)
(* hash.back the value after the second toggle.                            *)
(***************************************************************************)
\* the fresh board of size n with the cells of its first row replaced
WithRow(n, row) ==
    [size  |-> n,
     cells |-> [i \in 1..(n * n) |-> IF i <= n THEN row[i - 1] ELSE Board_new(n).cells[i]]]

\* the boards hashed: the smallest board with any first row, and the fresh
\* board of every size
HashBoards ==
    {WithRow(MinSize, row) : row \in Lines(MinSize)}
    \cup {Board_new(n) : n \in BoardSizes}

HashInput(board, phase, turn) ==
    [op |-> "input", board |-> board, phase |-> phase, turn |-> turn,
     value |-> INITIAL_VALUE, pos |-> <<>>, phases |-> <<>>,
     after |-> INITIAL_VALUE, back |-> INITIAL_VALUE]

InitHash ==
    /\ state = GameState_new(MinSize)
    /\ last = NoCall
    /\ njumps = 0
    /\ query = NoQuery
    /\ ai = NoAi
    /\ app = NoApp
    /\ \E board \in HashBoards : \E phase \in GamePhase : \E turn \in PieceColor :
          hash = HashInput(board, phase, turn)
    /\ imported = NoImport

FromState ==
    /\ hash.op = "input"
    /\ hash' = [hash EXCEPT !.op = "from_state",
                            !.value = ZHash_from_state(hash.board, hash.phase, hash.turn)]
    /\ UNCHANGED <<state, last, njumps, query, ai, app, imported>>

Toggled(op, pos, phases, after, back) ==
    /\ hash' = [hash EXCEPT !.op = op, !.pos = pos, !.phases = phases,
                            !.after = after, !.back = back]
    /\ UNCHANGED <<state, last, njumps, query, ai, app, imported>>

RemoveStoneTwice ==
    /\ hash.op = "from_state"
    /\ \E pos \in Positions(MinSize) :
          Toggled("remove_stone", <<pos>>, <<>>,
                  ZHash_remove_stone(hash.value, pos),
                  ZHash_remove_stone(ZHash_remove_stone(hash.value, pos), pos))

\* the pairs of cells of one row or one column of the smallest board
MovePairs ==
    {x \in Positions(MinSize) \X Positions(MinSize) :
        x[1] # x[2] /\ (x[1][1] = x[2][1] \/ x[1][2] = x[2][2])}

MoveStoneAndBack ==
    /\ hash.op = "from_state"
    /\ \E x \in MovePairs :
          Toggled("move_stone", <<x[1], x[2]>>, <<>>,
                  ZHash_move_stone(hash.value, x[1], x[2]),
                  ZHash_move_stone(ZHash_move_stone(hash.value, x[1], x[2]), x[2], x[1]))

EndTurnTwice ==
    /\ hash.op = "from_state"
    /\ Toggled("end_turn", <<>>, <<>>,
               ZHash_end_turn(hash.value),
               ZHash_end_turn(ZHash_end_turn(hash.value)))

ChangePhaseAndBack ==
    /\ hash.op = "from_state"
    /\ \E old \in GamePhase : \E new \in GamePhase :
          Toggled("change_phase", <<>>, <<old, new>>,
                  ZHash_change_phase(hash.value, old, new),
                  ZHash_change_phase(ZHash_change_phase(hash.value, old, new), new, old))

NextHash ==
    FromState \/ RemoveStoneTwice \/ MoveStoneAndBack \/ EndTurnTwice \/ ChangePhaseAndBack

SpecHash == InitHash /\ [][NextHash]_vars

(***************************************************************************)
(* state.rs: Position labels.  A string is the sequence of the codes of    *)
(* its characters.  InitLabel draws a position of the largest board;       *)
(* ToAlgebraic formats it, Retyped rewrites the label as a user may type   *)
(* it (upper case, surrounding blanks, a sign or a zero before the rank)   *)
(* and FromAlgebraic parses the text.                                      *)
(***************************************************************************)
\* the digits of n in base ten, as format!("{}", n) writes them
RECURSIVE Decimal(_)
Decimal(n) == IF n < 10 THEN <<48 + n>> ELSE Append(Decimal(n \div 10), 48 + (n % 10))

\* a slip: the rank is the row itself
to_algebraic_zero_based(pos) ==
    <<(97 + (pos[2] % 256)) % 256>> \o Decimal(pos[1])

\* (b'a' + col as u8) as char, then the rank row + 1
to_algebraic(pos) ==
    <<(97 + (pos[2] % 256)) % 256>> \o Decimal(pos[1] + 1)

is_whitespace(ch) == ch \in {9, 10, 11, 12, 13, 32}

RECURSIVE trim_start(_)
trim_start(str) ==
    IF str # <<>> /\ is_whitespace(Head(str)) THEN trim_start(Tail(str)) ELSE str

RECURSIVE trim_end(_)
trim_end(str) ==
    IF str # <<>> /\ is_whitespace(str[Len(str)])
    THEN trim_end(SubSeq(str, 1, Len(str) - 1)) ELSE str

trim(str) == trim_end(trim_start(str))

\* to_lowercase on the codes of ASCII letters
lowercase_codes(str) ==
    [i \in 1..Len(str) |-> IF str[i] \in 65..90 THEN str[i] + 32 ELSE str[i]]

RECURSIVE DigitsValue(_)
DigitsValue(digits) ==
    IF digits = <<>> THEN 0
    ELSE 10 * DigitsValue(SubSeq(digits, 1, Len(digits) - 1)) + (digits[Len(digits)] - 48)

\* str::parse::<usize>: an optional '+', then one or more digits
parse_usize(str) ==
    LET digits == IF str # <<>> /\ Head(str) = 43 THEN Tail(str) ELSE str
    IN  IF digits = <<>> \/ \E i \in 1..Len(digits) : digits[i] \notin 48..57
        THEN None
        ELSE Some(DigitsValue(digits))

from_algebraic(str) ==
    LET t    == lowercase_codes(trim(str))
        rank == parse_usize(Tail(t))
    IN  IF t = <<>> THEN None
        ELSE IF rank = None THEN None
        ELSE IF Head(t) \notin 97..122 \/ rank[1] = 0 THEN None
        ELSE Some(Position_new(rank[1] - 1, Head(t) - 97))

InitLabel ==
    /\ state = GameState_new(MinSize)
    /\ last = NoCall
    /\ njumps = 0
    /\ \E row \in 0..(MAX_SIZE - 1) : \E col \in 0..(MAX_SIZE - 1) :
          query = [kind |-> "position", pos |-> Position_new(row, col),
                   text |-> <<>>, parsed |-> None]
    /\ ai = NoAi
    /\ app = NoApp
    /\ hash = NoHash
    /\ imported = NoImport

ToAlgebraic ==
    /\ query.kind = "position"
    /\ query' = [query EXCEPT !.kind = "to_algebraic", !.text = to_algebraic(query.pos)]
    /\ UNCHANGED <<state, last, njumps, ai, app, hash, imported>>

\* the ways a label is typed again
Retypings(text) ==
    { [i \in 1..Len(text) |-> IF text[i] \in 97..122 THEN text[i] - 32 ELSE text[i]],
      <<32>> \o text \o <<32, 10>>,
      <<Head(text), 43>> \o Tail(text),
      <<Head(text), 48>> \o Tail(text) }

Retyped ==
    /\ query.kind = "to_algebraic"
    /\ \E text \in Retypings(query.text) :
          query' = [query EXCEPT !.kind = "retyped", !.text = text]
    /\ UNCHANGED <<state, last, njumps, ai, app, hash, imported>>

FromAlgebraic ==
    /\ query.kind \in {"to_algebraic", "retyped"}
    /\ query' = [query EXCEPT !.kind = "from_algebraic",
                              !.parsed = from_algebraic(query.text)]
    /\ UNCHANGED <<state, last, njumps, ai, app, hash, imported>>

NextLabel == ToAlgebraic \/ Retyped \/ FromAlgebraic

SpecLabel == InitLabel /\ [][NextLabel]_vars

(***************************************************************************)
(* Reference definitions used by the properties: the legal jumps stated    *)
(* from the rules, independently of the generator's loops.                 *)
(***************************************************************************)
CellAt(board, pos) == board.cells[CellIndex(board.size, pos)]

PhaseRank(phase) ==
    CASE phase = Setup               -> 0
      [] phase = OpeningBlackRemoval -> 1
      [] phase = OpeningWhiteRemoval -> 2
      [] phase = Play                -> 3
      [] phase.name = "GameOver"     -> 4

\* k captures from `from` in direction d are possible on the board
LegalChain(board, player, from, d, k) ==
    \A i \in 1..k :
       /\ InBounds(board.size, Adv(from, d, 2 * i - 1))
       /\ CellAt(board, Adv(from, d, 2 * i - 1)) = opposite(player)
       /\ InBounds(board.size, Adv(from, d, 2 * i))
       /\ CellAt(board, Adv(from, d, 2 * i)) = Empty

RefJumps(s, from) ==
    IF CellAt(s.board, from) # s.current_player THEN {}
    ELSE {LineJump(from, x[1], x[2]) :
            x \in {y \in Range(Direction_all) \X (1..s.board.size) :
                     LegalChain(s.board, s.current_player, from, y[1], y[2])}}

RefAllJumps(s) == UNION {RefJumps(s, p) : p \in Positions(s.board.size)}

SameBoardPhaseTurn(s, t) ==
    /\ t.board = s.board
    /\ t.phase = s.phase
    /\ t.current_player = s.current_player

(***************************************************************************)
(* Properties.                                                             *)
(***************************************************************************)

\* C1 (as stated): along every sequence of apply calls that take their move
\* from a query function the phase never moves back, and once GameOver is
\* reached no query offers a move, so phase, winner, board and turn never
\* change again.
C1_NoQueryAfterGameOver ==
    [][ /\ PhaseRank(state'.phase) >= PhaseRank(state.phase)
        /\ state.phase.name = "GameOver" =>
              /\ valid_black_opening_removals(state) = <<>>
              /\ valid_white_opening_removals(state) = <<>>
              /\ all_valid_jumps(state) = <<>>
              /\ SameBoardPhaseTurn(state, state') ]_vars

\* C1 (amended): along every sequence of apply calls that take their move
\* from a query function the phase never moves back, and once GameOver is
\* reached all_valid_jumps offers no jump and apply_opening_removal rejects
\* every position the removal queries still return, so phase, winner, board
\* and turn never change again.
C1_PhaseForward ==
    [][ /\ PhaseRank(state'.phase) >= PhaseRank(state.phase)
        /\ state.phase.name = "GameOver" =>
              /\ all_valid_jumps(state) = <<>>
              /\ ~last'.ok
              /\ SameBoardPhaseTurn(state, state') ]_vars

C1_Witness ==
    /\ state.phase.name = "GameOver"
    /\ last.op = "apply_opening_removal"
    /\ ~last.ok

\* C2: in every state reached by legal moves, OpeningBlackRemoval means
\* Black is to move, OpeningWhiteRemoval means White is to move, Play after
\* k jumps has Black to move exactly when k is even, and GameOver{winner}
\* has winner.opposite() to move.
C2_TurnMatchesPhase ==
    /\ state.phase = OpeningBlackRemoval => state.current_player = Black
    /\ state.phase = OpeningWhiteRemoval => state.current_player = White
    /\ state.phase = Play => (state.current_player = Black <=> njumps % 2 = 0)
    /\ state.phase.name = "GameOver" =>
          state.current_player = opposite(state.phase.winner)

C2_Witness ==
    /\ state.phase = Play
    /\ njumps = 3
    /\ state.current_player = White

\* C3: valid_jumps_from(state, from) is exactly the reference set of legal
\* jumps: empty when `from` is not a piece of the side to move, otherwise
\* one jump per direction d and k >= 1 with opposing pieces on the odd cells
\* and empty cells on the even cells up to 2k; nothing missing, nothing
\* else, nothing twice.
C3_JumpsExact ==
    query.kind = "result" =>
       /\ Range(query.jumps) = RefJumps(state, query.from[1])
       /\ Len(query.jumps) = Cardinality(RefJumps(state, query.from[1]))

C3_Witness ==
    /\ query.kind = "result"
    /\ \E i, j \in 1..Len(query.jumps) :
          /\ query.jumps[i].direction # query.jumps[j].direction
          /\ Range(query.jumps) = RefJumps(state, query.from[1])

\* a step that is a call of apply_jump with a jump the query offered in Play
JumpApplied ==
    /\ njumps' = njumps + 1
    /\ last'.op = "apply_jump"
    /\ state.phase = Play
    /\ Contains(valid_jumps_from(state, last'.jump[1].from), last'.jump[1])

\* C4: apply_jump with a jump taken from valid_jumps_from(state, jump.from)
\* in Play leaves jump.from empty, jump.to occupied by the mover, every
\* captured cell empty and every other cell unchanged, switches the side to
\* move, and returns MoveRecord::Jump with the mover's colour, from, to and
\* the captured cells in chain order.
C4_JumpEffect ==
    [][ JumpApplied =>
          LET jump  == last'.jump[1]
              mover == state.current_player
              n     == state.board.size
          IN  /\ CellAt(state'.board, jump.from) = Empty
              /\ CellAt(state'.board, jump.to) = Occupied(mover)
              /\ \A c \in Range(jump.captured) : CellAt(state'.board, c) = Empty
              /\ \A p \in Positions(n) :
                    p \notin ({jump.from, jump.to} \cup Range(jump.captured))
                       => CellAt(state'.board, p) = CellAt(state.board, p)
              /\ state'.board.size = n
              /\ state'.current_player = opposite(mover)
              /\ last'.ok
              /\ last'.record =
                    Some([kind |-> "Jump", color |-> mover, from |-> jump.from,
                          to |-> jump.to,
                          captured |-> [i \in 1..Len(jump.captured) |->
                                          Adv(jump.from, jump.direction, 2 * i - 1)]]) ]_vars

C4_Witness ==
    /\ last.op = "apply_jump"
    /\ last.checked
    /\ Len(last.jump[1].captured) = 2
    /\ \A c \in Range(last.jump[1].captured) : CellAt(state.board, c) = Empty
    /\ CellAt(state.board, last.jump[1].to) = Occupied(opposite(state.current_player))

\* C5: after apply_jump in Play the phase is GameOver with the player who
\* just jumped as winner exactly when the new side to move has no legal
\* jump on the resulting board; otherwise the phase stays Play.
C5_GameOverIffStuck ==
    [][ JumpApplied =>
          IF RefAllJumps(state') = {}
          THEN state'.phase = GameOver(state.current_player)
          ELSE state'.phase = Play ]_vars

C5_Witness ==
    /\ last.op = "apply_jump"
    /\ state.phase = GameOver(White)
    /\ state.current_player = Black
    /\ RefAllJumps(state) = {}

\* C6 (as stated): apply_jump called with a jump that is not an element of
\* valid_jumps_from(state, jump.from), or outside Play, reports a failure
\* and leaves board, phase, winner and side to move unchanged.
C6_InvalidJumpRejected ==
    [][ ( /\ njumps' = njumps + 1
          /\ last'.op = "apply_jump"
          /\ \/ state.phase # Play
             \/ ~Contains(valid_jumps_from(state, last'.jump[1].from), last'.jump[1]) )
        => /\ ~last'.ok
           /\ SameBoardPhaseTurn(state, state') ]_vars

\* C7: apply_opening_removal returns Err and leaves board, phase, side to
\* move and recorded opening position unchanged whenever the position is
\* not in the candidate set of the current opening phase or the phase is
\* not an opening phase.
C7_BadRemovalRejected ==
    [][ ( /\ last' # last
          /\ last'.op = "apply_opening_removal"
          /\ LET pos == last'.pos[1]
             IN  \/ /\ state.phase = OpeningBlackRemoval
                    /\ ~Contains(valid_black_opening_removals(state), pos)
                 \/ /\ state.phase = OpeningWhiteRemoval
                    /\ ~Contains(valid_white_opening_removals(state), pos)
                 \/ state.phase \notin {OpeningBlackRemoval, OpeningWhiteRemoval} )
        => /\ ~last'.ok
           /\ last'.record = None
           /\ SameBoardPhaseTurn(state, state')
           /\ state'.first_removal_pos = state.first_removal_pos ]_vars

C7_Witness ==
    /\ last.op = "apply_opening_removal"
    /\ ~last.ok
    /\ state.phase = OpeningWhiteRemoval
    /\ ~Contains(valid_white_opening_removals(state), last.pos[1])
    /\ state.first_removal_pos # None

\* C8: in every state reached from GameState::new by apply_opening_removal
\* and apply_jump calls the fingerprint maintained incrementally equals
\* ZHash::from_state computed on the board, phase and side to move.
C8_FingerprintAgrees ==
    fingerprint(state) = ZHash_from_state(state.board, state.phase, state.current_player)

C8_Witness ==
    /\ state.phase.name = "GameOver"
    /\ njumps >= 2
    /\ fingerprint(state) # INITIAL_VALUE
    /\ fingerprint(state) = ZHash_from_state(state.board, state.phase, state.current_player)

\* the cell k steps from `from` in direction d is in bounds and holds c
HoldsAt(board, from, d, k, c) ==
    /\ InBounds(board.size, Adv(from, d, k))
    /\ CellAt(board, Adv(from, d, k)) = c

\* the cells [mover][opponent][empty][opponent][empty] lie from `from` in
\* direction d, the line offers no third capture, and no other direction
\* offers a jump
TwoChainOnly(s, from, d) ==
    /\ HoldsAt(s.board, from, d, 0, Occupied(s.current_player))
    /\ LegalChain(s.board, s.current_player, from, d, 2)
    /\ ~LegalChain(s.board, s.current_player, from, d, 3)
    /\ \A e \in Range(Direction_all) \ {d} :
          ~LegalChain(s.board, s.current_player, from, e, 1)

\* C9: every intermediate chain length is its own jump: with a jump of
\* k >= 2 captures in direction d, valid_jumps_from also returns, for every
\* 1 <= j < k, the jump from the same origin in direction d with the first
\* j captures landing on from + 2j*d; and for cells [mover][opponent][empty]
\* [opponent][empty] along one direction with no jump in the other
\* directions it returns exactly two jumps, with 1 and 2 captures.
C9_EveryChainLength ==
    query.kind = "result" =>
       /\ \A jump \in Range(query.jumps) :
             \A j \in 1..(Len(jump.captured) - 1) :
                Contains(query.jumps,
                         Jump(jump.from, Adv(jump.from, jump.direction, 2 * j),
                              jump.direction, SubSeq(jump.captured, 1, j)))
       /\ \A d \in Range(Direction_all) :
             TwoChainOnly(state, query.from[1], d) =>
                /\ Len(query.jumps) = 2
                /\ Len(query.jumps[1].captured) = 1
                /\ Len(query.jumps[2].captured) = 2
                /\ query.jumps[1].direction = d
                /\ query.jumps[2].direction = d

C9_Witness ==
    /\ query.kind = "result"
    /\ \E d \in Range(Direction_all) : TwoChainOnly(state, query.from[1], d)
    /\ Len(query.jumps) = 2
    /\ Len(query.jumps[2].captured) = 2

\* C10: every jump returned by valid_jumps_from or all_valid_jumps is a
\* straight line in its single direction d: captured is non-empty, to is
\* from advanced 2*len(captured) steps by d, the i-th captured cell (from 0)
\* is from advanced 2i+1 steps by d, and all these cells are in bounds.
C10_StraightLine ==
    query.kind = "result" =>
       \A jump \in Range(query.jumps) \cup Range(query.all) :
          LET k == Len(jump.captured)
              n == state.board.size
          IN  /\ k >= 1
              /\ jump.direction \in Range(Direction_all)
              /\ InBounds(n, jump.from)
              /\ jump.to = Adv(jump.from, jump.direction, 2 * k)
              /\ InBounds(n, jump.to)
              /\ \A i \in 0..(k - 1) :
                    /\ jump.captured[i + 1] = Adv(jump.from, jump.direction, 2 * i + 1)
                    /\ InBounds(n, jump.captured[i + 1])

C10_Witness ==
    /\ query.kind = "result"
    /\ \E i, j \in 1..Len(query.all) :
          /\ Len(query.all[i].captured) = 2
          /\ query.all[j].direction # query.all[i].direction
          /\ query.all[j].from = query.all[i].from
          /\ query.all[i].to = Adv(query.all[i].from, query.all[i].direction, 4)

\* the state is the one GameState::new built: no rules call has been made
Fresh == last.op = "new"

\* C16 (as stated): on a fresh board of every even size 4..16 the four
\* center cells and the four corner cells all hold the same colour, the
\* colour that moves first (Black).
C16_AllEightBlack ==
    Fresh =>
       \A p \in Range(center_positions(state.board)) \cup Range(corner_positions(state.board)) :
          /\ Board_get_piece_color(state.board, p) = Some(state.current_player)
          /\ state.current_player = Black

\* C16 (amended): on a fresh board of every even size 4..16 the two center
\* cells and the two corner cells on the main diagonal, (N/2-1,N/2-1),
\* (N/2,N/2), (0,0) and (N-1,N-1), hold the colour that moves first (Black);
\* the other two center cells and the other two corner cells hold White.
C16_DiagonalBlack ==
    Fresh =>
       LET centers == center_positions(state.board)
           corners == corner_positions(state.board)
           colour(p) == Board_get_piece_color(state.board, p)
       IN  /\ state.current_player = Black
           /\ \A i \in {1, 4} : colour(centers[i]) = Some(Black) /\ colour(corners[i]) = Some(Black)
           /\ \A i \in {2, 3} : colour(centers[i]) = Some(White) /\ colour(corners[i]) = Some(White)

C16_Witness ==
    /\ Fresh
    /\ state.board.size = MaxBoardSize
    /\ state.phase = OpeningBlackRemoval
    /\ Board_get_piece_color(state.board, corner_positions(state.board)[4]) = Some(Black)
    /\ Board_get_piece_color(state.board, center_positions(state.board)[2]) = Some(White)

\* a step that is a successful apply_opening_removal in the given phase
RemovalApplied(phase) ==
    /\ state.phase = phase
    /\ last'.op = "apply_opening_removal"
    /\ last'.ok

\* the boards differ at most on pos, which is empty in the second
EmptiedExactly(before, after, pos) ==
    /\ after.size = before.size
    /\ CellAt(after, pos) = Empty
    /\ \A p \in Positions(before.size) \ {pos} : CellAt(after, p) = CellAt(before, p)

\* C11: a successful apply_opening_removal in OpeningWhiteRemoval empties
\* exactly the chosen cell, makes Black the side to move, and leaves the
\* phase Play unless Black has no valid jump on the resulting board, in
\* which case (and only then) the phase is GameOver{winner: White}; it
\* returns OpeningRemoval{color: White, position}.
C11_WhiteRemovalEffect ==
    [][ RemovalApplied(OpeningWhiteRemoval) =>
          LET pos == last'.pos[1]
          IN  /\ EmptiedExactly(state.board, state'.board, pos)
              /\ state'.current_player = Black
              /\ IF RefAllJumps(state') = {}
                 THEN state'.phase = GameOver(White)
                 ELSE state'.phase = Play
              /\ last'.record =
                    Some([kind |-> "OpeningRemoval", color |-> White, position |-> pos]) ]_vars

C11_Witness ==
    /\ last.op = "apply_opening_removal"
    /\ last.ok
    /\ state.phase = GameOver(White)
    /\ state.current_player = Black
    /\ PiecesOf(state.board, Black) # {}
    /\ CellAt(state.board, last.pos[1]) = Empty

\* C12: a successful apply_opening_removal in OpeningBlackRemoval empties
\* exactly the chosen cell, records it as the opening position, sets the
\* phase to OpeningWhiteRemoval and the side to move to White whether or
\* not White has a move, and returns OpeningRemoval{color: Black, position}.
C12_BlackRemovalEffect ==
    [][ RemovalApplied(OpeningBlackRemoval) =>
          LET pos == last'.pos[1]
          IN  /\ EmptiedExactly(state.board, state'.board, pos)
              /\ state'.first_removal_pos = Some(pos)
              /\ state'.phase = OpeningWhiteRemoval
              /\ state'.current_player = White
              /\ last'.record =
                    Some([kind |-> "OpeningRemoval", color |-> Black, position |-> pos]) ]_vars

C12_Witness ==
    /\ last.op = "apply_opening_removal"
    /\ last.ok
    /\ state.phase = OpeningWhiteRemoval
    /\ state.first_removal_pos = last.pos
    /\ valid_white_opening_removals(state) = <<>>
    /\ PiecesOf(state.board, Black) # {}

\* the center and corner cells of the board that hold a piece of the colour
CentersAndCornersOf(board, colour) ==
    {p \in Range(center_positions(board)) \cup Range(corner_positions(board)) :
        Board_get_piece_color(board, p) = Some(colour)}

\* C13 (as stated): valid_black_opening_removals(state) is exactly the set
\* of center and corner cells currently occupied by a Black piece, so it
\* never contains a White or an empty cell.
C13_BlackRemovalsOccupied ==
    Range(valid_black_opening_removals(state)) = CentersAndCornersOf(state.board, Black)

\* the in-bounds cells one step up, down, left or right of pos
NeighbourCells(n, pos) ==
    {p \in Positions(n) :
        \/ p[1] = pos[1] /\ (p[2] = pos[2] + 1 \/ p[2] + 1 = pos[2])
        \/ p[2] = pos[2] /\ (p[1] = pos[1] + 1 \/ p[1] + 1 = pos[1])}

\* C14: valid_white_opening_removals(state) is exactly the set of in-bounds
\* orthogonal neighbours of the cell vacated by the first removal that hold
\* a White piece, each once, and it is empty when no first removal has
\* occurred.
C14_WhiteRemovalsExact ==
    LET r == valid_white_opening_removals(state)
    IN  IF state.first_removal_pos = None THEN r = <<>>
        ELSE /\ Range(r) = {p \in NeighbourCells(state.board.size, state.first_removal_pos[1]) :
                               CellAt(state.board, p) = Occupied(White)}
             /\ Cardinality(Range(r)) = Len(r)

C14_Witness ==
    /\ state.phase = Play
    /\ state.first_removal_pos # None
    /\ Len(valid_white_opening_removals(state)) >= 1
    /\ Len(valid_white_opening_removals(state))
          < Cardinality(NeighbourCells(state.board.size, state.first_removal_pos[1]))

\* the last call was the successful second removal of the opening
OpeningDone ==
    /\ last.op = "apply_opening_removal"
    /\ last.ok
    /\ last.record[1].color = White

\* C15: after any legal first removal followed by any legal second removal,
\* on every board size, the phase is Play and Black is to move with at
\* least one valid jump, so the opening never ends the game; and on the
\* 4x4 board after Black removes (1,1) the legal second removals are
\* exactly (0,1), (2,1), (1,0) and (1,2).
C15_OpeningLeadsToPlay ==
    /\ OpeningDone =>
          /\ state.phase = Play
          /\ state.current_player = Black
          /\ RefAllJumps(state) # {}
    /\ ( /\ state.board.size = 4
         /\ state.phase = OpeningWhiteRemoval
         /\ state.first_removal_pos = Some(Position_new(1, 1)) )
       => Range(valid_white_opening_removals(state))
             = {Position_new(0, 1), Position_new(2, 1), Position_new(1, 0), Position_new(1, 2)}

C15_Witness ==
    /\ OpeningDone
    /\ state.board.size = MaxBoardSize
    /\ state.phase = Play
    /\ all_valid_jumps(state) # <<>>

\* C17: has_valid_move(state) is true in OpeningBlackRemoval iff
\* valid_black_opening_removals is non-empty, in OpeningWhiteRemoval iff
\* valid_white_opening_removals is non-empty, in Play iff some board cell
\* has a valid jump for the side to move, and it is false in Setup and in
\* GameOver whatever the board holds.
C17_HasValidMoveByPhase ==
    has_valid_move(state) <=>
       CASE state.phase = OpeningBlackRemoval -> valid_black_opening_removals(state) # <<>>
         [] state.phase = OpeningWhiteRemoval -> valid_white_opening_removals(state) # <<>>
         [] state.phase = Play ->
               \E p \in Positions(state.board.size) : RefJumps(state, p) # {}
         [] state.phase = Setup -> FALSE
         [] state.phase.name = "GameOver" -> FALSE

C17_Witness ==
    /\ state.phase.name = "GameOver"
    /\ last.op = "apply_jump"
    /\ RefAllJumps(state) # {}
    /\ ~has_valid_move(state)

\* a move of the kind and from the query of the phase s is in
LegalMove(s, mv) ==
    CASE s.phase = OpeningBlackRemoval ->
           /\ mv.move = "OpeningRemoval"
           /\ Contains(valid_black_opening_removals(s), mv.pos[1])
      [] s.phase = OpeningWhiteRemoval ->
           /\ mv.move = "OpeningRemoval"
           /\ Contains(valid_white_opening_removals(s), mv.pos[1])
      [] s.phase = Play ->
           /\ mv.move = "Jump"
           /\ LET jumps == all_valid_jumps(s)
              IN  \E i \in 1..Len(jumps) :
                     /\ jumps[i].from = mv.jump[1].from
                     /\ jumps[i].to = mv.jump[1].to
                     /\ jumps[i].captured = mv.jump[1].captured
      [] OTHER -> FALSE

\* C18: called with a depth of at least 1 on a state that has a legal move,
\* compute_move returns Some(move), and the move is legal in that state: an
\* OpeningRemoval from the valid set of the opening phase, or in Play a Jump
\* whose from, to and captured are those of an element of all_valid_jumps.
C18_ComputeMoveLegal ==
    (ai.op = "compute_move" /\ ai.depth >= 1 /\ has_valid_move(state))
        => (ai.result # None /\ LegalMove(state, ai.result[1]))

\* compute_move returned a jump in the Play phase of a game that was played
C18_Witness ==
    /\ ai.op = "compute_move"
    /\ state.phase = Play
    /\ njumps > 0
    /\ ai.result # None
    /\ ai.result[1].move = "Jump"

\* C19: called on a state without a legal move (every GameOver state, and
\* any other state for which the generator yields nothing), compute_move
\* returns None.
C19_NoMoveGivesNone ==
    (ai.op = "compute_move" /\ (state.phase.name = "GameOver" \/ ~has_valid_move(state)))
        => ai.result = None

\* compute_move returned None at the end of a game that was played
C19_Witness ==
    /\ ai.op = "compute_move"
    /\ state.phase.name = "GameOver"
    /\ njumps > 0
    /\ ai.result = None
\* C20: under every interleaving of UI messages with a pending search, the
\* move delivered by AiMoveComputed is applied to the state it was computed
\* from, and is a legal move of the state it is applied to.
C20_AiMoveOnSearchedState ==
    app.ai_move # None =>
        /\ app.ai_move[1].onto = app.ai_move[1].root
        /\ LegalMove(app.ai_move[1].onto, app.ai_move[1].move)

(***************************************************************************)
(* Reference replay of a file: the records are taken as moves of the game  *)
(* and judged by the rules, independently of the import's own checks.      *)
(***************************************************************************)
OutOfBounds(size, pos) == pos[1] >= size \/ pos[2] >= size

\* the record is the move of the side to move that the rules offer from it
LegalRecord(s, rec) ==
    IF rec.kind = "OpeningRemoval"
    THEN /\ s.phase \in {OpeningBlackRemoval, OpeningWhiteRemoval}
         /\ rec.color = s.current_player
         /\ Contains(IF s.phase = OpeningBlackRemoval
                     THEN valid_black_opening_removals(s)
                     ELSE valid_white_opening_removals(s), rec.position)
    ELSE /\ s.phase = Play
         /\ rec.color = s.current_player
         /\ ~OutOfBounds(s.board.size, rec.from)
         /\ \E j \in RefJumps(s, rec.from) :
               j.to = rec.to /\ j.captured = rec.captured

RefApply(s, rec) ==
    IF rec.kind = "OpeningRemoval"
    THEN apply_opening_removal(s, rec.position).state
    ELSE apply_jump(s, rec).state

\* the kind of the record is not permitted by the phase, its colour is not
\* the side to move, or one of its positions is off the board
BadRecord(s, rec) ==
    \/ rec.kind = "OpeningRemoval" /\ s.phase \notin {OpeningBlackRemoval, OpeningWhiteRemoval}
    \/ rec.kind = "Jump" /\ s.phase # Play
    \/ rec.color # s.current_player
    \/ rec.kind = "OpeningRemoval" /\ OutOfBounds(s.board.size, rec.position)
    \/ /\ rec.kind = "Jump"
       /\ \/ OutOfBounds(s.board.size, rec.from)
          \/ OutOfBounds(s.board.size, rec.to)
          \/ \E i \in 1..Len(rec.captured) : OutOfBounds(s.board.size, rec.captured[i])

ValidSize(content) == content.board_size \in BoardSizes

\* the number of the first bad record of the file when every record before
\* it is a legal move of the state before it, 0 when there is none; s is the
\* state before record i
RECURSIVE FirstBad(_, _, _)
FirstBad(moves, s, i) ==
    IF i > Len(moves) THEN 0
    ELSE IF BadRecord(s, moves[i]) THEN i
    ELSE IF ~LegalRecord(s, moves[i]) THEN 0
    ELSE FirstBad(moves, RefApply(s, moves[i]), i + 1)

FirstBadOf(content) == FirstBad(content.moves, GameState_new(content.board_size), 1)

AbortedAt(i) ==
    /\ ~imported.result.ok
    /\ imported.result.error.move = i
    /\ imported.result.examined = i
    /\ imported.result.state = None

\* C21: the import replays the moves in order and aborts at the first move
\* whose kind the phase does not permit, whose colour is not the side to
\* move, or that names a position off the board: the error carries the
\* 1-based number of that move, no later record is examined and no state
\* is returned.
C21_AbortAtFirstBadMove ==
    (imported.op = "import" /\ ValidSize(imported.content)
        /\ FirstBadOf(imported.content) # 0)
        => AbortedAt(FirstBadOf(imported.content))

\* a file was refused at a bad record that has records after it
C21_Witness ==
    /\ imported.op = "import"
    /\ ValidSize(imported.content)
    /\ ~imported.result.ok
    /\ FirstBadOf(imported.content) > 2
    /\ FirstBadOf(imported.content) < Len(imported.content.moves)
    /\ imported.result.error.move = FirstBadOf(imported.content)

\* record i of the file was accepted by the import
Accepted(i) ==
    /\ imported.result.examined >= i
    /\ imported.result.ok \/ imported.result.error.move # i

\* some candidate of valid_jumps_from has the destination of the record and
\* the same set of captured positions
SetMatch(s, rec) ==
    \E j \in Range(valid_jumps_from(s, rec.from)) :
       j.to = rec.to /\ Range(j.captured) = Range(rec.captured)

\* the record is a Jump that passes the phase, colour and bounds checks and
\* names at least one capture
CheckedJump(s, rec) ==
    rec.kind = "Jump" /\ ~BadRecord(s, rec) /\ rec.captured # <<>>

\* every checked Jump among the records from i on that follows legal moves
\* is accepted exactly when a candidate matches it as a set, and is refused
\* with the invalid-jump error otherwise; s is the state before record i
RECURSIVE JumpsJudgedBySet(_, _, _)
JumpsJudgedBySet(moves, s, i) ==
    IF i > Len(moves) THEN TRUE
    ELSE /\ CheckedJump(s, moves[i]) =>
               /\ Accepted(i) <=> SetMatch(s, moves[i])
               /\ ~Accepted(i) => imported.result.error = Error(i, "Invalid jump")
         /\ LegalRecord(s, moves[i]) =>
               JumpsJudgedBySet(moves, RefApply(s, moves[i]), i + 1)

\* C22: during import a Jump record that passes the phase, colour and
\* bounds checks is accepted if and only if some candidate of
\* valid_jumps_from(state, from) has the same destination and the same
\* captured positions compared as a set; otherwise the import aborts with
\* the invalid-jump error.
C22_JumpMatchedBySet ==
    (imported.op = "import" /\ ValidSize(imported.content)) =>
        JumpsJudgedBySet(imported.content.moves,
                         GameState_new(imported.content.board_size), 1)

\* the string is the word, each letter in either case
Spells(str, lower, upper) ==
    /\ Len(str) = Len(lower)
    /\ \A i \in 1..Len(str) : str[i] = lower[i] \/ str[i] = upper[i]

NamesBlack(str) == Spells(str, <<"b", "l", "a", "c", "k">>, <<"B", "L", "A", "C", "K">>)

NamesWhite(str) == Spells(str, <<"w", "h", "i", "t", "e">>, <<"W", "H", "I", "T", "E">>)

\* the file is the log of the game played, with any winner field
LogAsPlayed ==
    /\ imported.op = "import"
    /\ imported.content.board_size = state.board.size
    /\ imported.content.moves = imported.moves

\* the winner field names the winner of the finished game
WinnerNamed(winner) ==
    /\ state.phase.name = "GameOver"
    /\ \/ NamesBlack(winner) /\ state.phase.winner = Black
       \/ NamesWhite(winner) /\ state.phase.winner = White

Rejected(text) ==
    /\ ~imported.result.ok
    /\ imported.result.state = None
    /\ imported.result.error = Error(0, text)

\* C23: after a full replay a supplied winner is accepted only if the final
\* phase is GameOver and its winner is the colour the field names (Black or
\* White in any letter case); it is rejected when the game is not over,
\* when the other colour won and when the field is not a colour name; a
\* file without a winner field is always accepted.
C23_WinnerValidated ==
    LogAsPlayed =>
        LET winner == imported.content.winner
        IN  /\ winner = None => imported.result.ok
            /\ winner # None => (imported.result.ok <=> WinnerNamed(winner[1]))
            /\ (winner # None /\ ~NamesBlack(winner[1]) /\ ~NamesWhite(winner[1]))
                  => Rejected("Invalid winner: must be \"Black\" or \"White\"")
            /\ (winner # None /\ (NamesBlack(winner[1]) \/ NamesWhite(winner[1])))
                  => IF state.phase.name # "GameOver"
                     THEN Rejected("Winner specified but game is not over")
                     ELSE imported.result.ok \/ Rejected("Winner mismatch")

\* the log of a finished game was accepted with its winner written in
\* another letter case
C23_Witness ==
    /\ LogAsPlayed
    /\ state.phase.name = "GameOver"
    /\ imported.content.winner \in {Some(Str("BLACK")), Some(Str("white"))}
    /\ imported.result.ok

\* the file is the log the game-over view writes for the finished game
ExportedLog ==
    /\ imported.op = "import"
    /\ state.phase.name = "GameOver"
    /\ imported.content = GameLog(state.board.size, state.phase.winner, imported.moves)

\* C24: for every game played from GameState::new to GameOver by legal
\* moves, the import of the exported log (board_size, winner and the
\* MoveRecords the apply calls returned) succeeds and yields the same
\* board cell for cell, the same phase and winner and the same move history.
C24_ExportImportRoundTrip ==
    ExportedLog =>
        /\ imported.result.ok
        /\ imported.result.state # None
        /\ imported.result.state[1].board = state.board
        /\ imported.result.state[1].phase = state.phase
        /\ imported.result.move_history = imported.moves

\* the exported log of a game that ended after more than MaxLog moves was
\* imported
C24_Witness ==
    /\ ExportedLog
    /\ Len(imported.moves) > MaxLog
    /\ imported.result.ok
    /\ imported.result.state[1].board = state.board

\* entry i of the stack (from 1) holds the state before record i and the
\* records before it; the state after the last record is the one returned
RECURSIVE StackReplays(_, _, _, _)
StackReplays(stack, moves, final, i) ==
    IF i > Len(moves) THEN TRUE
    ELSE /\ stack[i].history = SubSeq(moves, 1, i - 1)
         /\ RefApply(stack[i].state, moves[i]) =
               (IF i = Len(moves) THEN final ELSE stack[i + 1].state)
         /\ StackReplays(stack, moves, final, i + 1)

\* C25: a successful import returns a move history with one record per
\* input move and an undo stack with one entry per move, entry i holding
\* the state and the history immediately before move i + 1 (entry 0 the
\* fresh state and the empty history); an empty move list returns the fresh
\* OpeningBlackRemoval state with an empty history and an empty undo stack.
C25_HistoryAndUndoStack ==
    (imported.op = "import" /\ imported.result.ok) =>
        LET moves == imported.content.moves
            stack == imported.result.undo_stack
            fresh == GameState_new(imported.content.board_size)
        IN  /\ imported.result.move_history = moves
            /\ Len(stack) = Len(moves)
            /\ moves # <<>> => stack[1] = Saved(fresh, <<>>)
            /\ StackReplays(stack, moves, imported.result.state[1], 1)
            /\ moves = <<>> =>
                  /\ imported.result.state[1] = fresh
                  /\ fresh.phase = OpeningBlackRemoval
                  /\ stack = <<>>

\* a log with jumps was imported and its undo stack has an entry per move
C25_Witness ==
    /\ imported.op = "import"
    /\ imported.result.ok
    /\ Len(imported.content.moves) > 3
    /\ Len(imported.result.undo_stack) = Len(imported.content.moves)
    /\ imported.result.undo_stack[4].state.phase = Play

\* C26: each toggle of the fingerprint is its own inverse: remove_stone(p)
\* twice, end_turn twice, move_stone(a, b) followed by move_stone(b, a) and
\* change_phase(x, y) followed by change_phase(y, x) give the original hash.
C26_TogglesSelfInverse ==
    hash.op \in {"remove_stone", "move_stone", "end_turn", "change_phase"}
        => hash.back = hash.value

\* a piece was moved and moved back: the hash changed and was restored
C26_Witness ==
    /\ hash.op = "move_stone"
    /\ hash.after # hash.value
    /\ hash.back = hash.value

\* the six phase variants numbered, GameOver split by its winner
PhaseVariant(phase) == PhaseRank(phase) + (IF phase = GameOver(White) THEN 1 ELSE 0)

Odd(n) == n % 2 = 1

\* bit b of the XOR of the values the claim lists: set exactly when it is
\* set in an odd number of them
RefHash(board, phase, turn) ==
    {b \in 0..63 :
        Odd(Cardinality({p \in Positions(board.size) :
                            CellAt(board, p) # Empty /\ b \in TABLES_pieces(pos_to_index(p))})
            + (IF turn = White /\ b \in TABLES_turn THEN 1 ELSE 0)
            + (IF b \in ZobristTables[MAX_POSITIONS + 2 + PhaseVariant(phase)] THEN 1 ELSE 0))}

\* the board with the colour of every piece changed
Recoloured(board) ==
    [board EXCEPT !.cells = [i \in DOMAIN board.cells |->
                                IF board.cells[i] = Empty THEN Empty
                                ELSE opposite(board.cells[i])]]

\* C27: ZHash::from_state is the XOR of the per-cell values of the occupied
\* cells (whatever their colour), of the turn value exactly when White is
\* to move, and of the value of the phase, GameOver counted once per
\* winner; states with the same occupied cells, side and phase have equal
\* hashes, and states that differ only in the side to move or only in the
\* phase have different hashes.
C27_FromStateIsXor ==
    hash.op = "from_state" =>
        /\ hash.value = RefHash(hash.board, hash.phase, hash.turn)
        /\ ZHash_from_state(Recoloured(hash.board), hash.phase, hash.turn) = hash.value
        /\ ZHash_from_state(hash.board, hash.phase, opposite(hash.turn)) # hash.value
        /\ \A other \in GamePhase \ {hash.phase} :
              ZHash_from_state(hash.board, other, hash.turn) # hash.value

\* a board with empty cells was hashed with White to move after a game
\* won by White
C27_Witness ==
    /\ hash.op = "from_state"
    /\ hash.turn = White
    /\ hash.phase = GameOver(White)
    /\ \E p \in Positions(hash.board.size) : CellAt(hash.board, p) = Empty
    /\ hash.value = RefHash(hash.board, hash.phase, hash.turn)

\* the legal moves of a state as actions: the positions of the removal
\* query of an opening phase, the jumps of the rules in Play, none otherwise
LegalActions(s) ==
    CASE s.phase = OpeningBlackRemoval ->
           {KonaneAction_OpeningRemoval(p) : p \in Range(valid_black_opening_removals(s))}
      [] s.phase = OpeningWhiteRemoval ->
           {KonaneAction_OpeningRemoval(p) : p \in Range(valid_white_opening_removals(s))}
      [] s.phase = Play -> {KonaneAction_Jump(j) : j \in RefAllJumps(s)}
      [] OTHER -> {}

\* the state a move leads to
AfterAction(s, action) ==
    IF action.action = "OpeningRemoval"
    THEN apply_opening_removal(s, action.pos[1]).state
    ELSE apply_jump(s, action.jump[1]).state

\* C28: KonaneMoveGenerator::generate dispatches on the phase and returns
\* exactly one successor per legal move (a position of valid_black in
\* OpeningBlackRemoval, of valid_white in OpeningWhiteRemoval, an element of
\* all_valid_jumps in Play, every partial chain separately; nothing in any
\* other phase); each successor is the move applied to a copy of the
\* parent and records the move as its last_action; the parent is unchanged.
C28_GenerateOnePerMove ==
    ai.op = "generate" =>
        LET parent == ai.root[1]
            moves  == LegalActions(parent.inner)
        IN  /\ parent = KonaneState(state, None)
            /\ Len(ai.responses) = Cardinality(moves)
            /\ {ai.responses[i].last_action : i \in 1..Len(ai.responses)}
                  = {Some(action) : action \in moves}
            /\ \A i \in 1..Len(ai.responses) :
                  /\ ai.responses[i].last_action # None
                  /\ ai.responses[i].inner =
                        AfterAction(parent.inner, ai.responses[i].last_action[1])

\* generate was called where a chain of two captures is possible: the
\* one-capture jump and the two-capture jump from the same cell in the same
\* direction are two successors
C28_Witness ==
    /\ ai.op = "generate"
    /\ state.phase = Play
    /\ njumps > 0
    /\ \E i, k \in 1..Len(ai.responses) :
          /\ ai.responses[i].last_action[1].jump[1].from
                = ai.responses[k].last_action[1].jump[1].from
          /\ Len(ai.responses[i].last_action[1].jump[1].captured) = 1
          /\ Len(ai.responses[k].last_action[1].jump[1].captured) = 2
          /\ ai.responses[i].inner.board # ai.responses[k].inner.board

\* the number of jumps the rules give the colour on the board of the state
JumpCount(s, color) == Cardinality(RefAllJumps([s EXCEPT !.current_player = color]))

C30_EvaluateGameOver ==
    ai.op = "evaluate" =>
        /\ state.phase.name = "GameOver" =>
              ai.score = (IF state.phase.winner = Black THEN 1000 ELSE 0 - 1000)
        /\ ai.terminal <=> state.phase \in {GameOver(Black), GameOver(White)}

\* evaluate was called on a finished game with stones missing in which the
\* winner is the side to move
C30_Witness ==
    /\ ai.op = "evaluate"
    /\ state.phase = GameOver(White)
    /\ state.current_player = White
    /\ \E p \in Positions(state.board.size) : CellAt(state.board, p) = Empty
    /\ ai.terminal
    /\ ai.score = 0 - 1000

\* the label the claim describes: the letter of the column counted from
\* 'a', then the rank row + 1 in decimal
RefLabel(pos) ==
    <<97 + pos[2]>> \o
    (IF pos[1] + 1 < 10 THEN <<48 + pos[1] + 1>>
     ELSE <<48 + ((pos[1] + 1) \div 10), 48 + ((pos[1] + 1) % 10)>>)

\* C31: the conversion between positions and labels round-trips: for every
\* (row, col) with 0 <= row, col < 16, _from_algebraic(to_algebraic(p)) is
\* Some(p), and distinct positions get distinct labels, the file letter
\* 'a' + col followed by the one-based rank row + 1.
C31_LabelRoundTrip ==
    /\ query.kind = "to_algebraic" =>
          /\ query.text = RefLabel(query.pos)
          /\ \A row \in 0..(MAX_SIZE - 1) : \A col \in 0..(MAX_SIZE - 1) :
                Position_new(row, col) # query.pos
                   => to_algebraic(Position_new(row, col)) # query.text
    /\ (query.kind = "from_algebraic" /\ query.text = RefLabel(query.pos))
          => query.parsed = Some(query.pos)

\* the label of a position with a two-digit rank was parsed back
C31_Witness ==
    /\ query.kind = "from_algebraic"
    /\ query.pos = Position_new(15, 15)
    /\ query.text = <<112, 49, 54>>
    /\ query.parsed = Some(query.pos)

\* C32: win detection is exact in every state reached from GameState::new
\* by legal moves: in Play the side to move has at least one valid jump,
\* and in GameOver{winner} the side to move is the loser and has no valid
\* jump on the final board, the jumps computed as in Play.
C32_WinDetectionExact ==
    last.checked =>
        /\ state.phase = Play => RefAllJumps(state) # {}
        /\ state.phase.name = "GameOver" =>
              /\ state.current_player = opposite(state.phase.winner)
              /\ RefAllJumps(state) = {}
              /\ all_valid_jumps(change_phase(state, Play)) = <<>>

\* a game ended by a jump that left the other side without a jump
C32_Witness ==
    /\ last.checked
    /\ last.op = "apply_jump"
    /\ state.phase.name = "GameOver"
    /\ state.current_player = opposite(state.phase.winner)
    /\ RefAllJumps(state) = {}

\* the colour a cell of the checkerboard is made with
SquareColour(pos) == IF (pos[1] + pos[2]) % 2 = 0 THEN Black ELSE White

\* C33: in every state reached from GameState::new by legal moves every
\* occupied cell (row, col) holds Black when row + col is even and White
\* when it is odd, so the set of occupied cells determines the board and
\* the presence-only fingerprint loses nothing about the colours.
C33_ColourFollowsParity ==
    last.checked =>
        \A p \in Positions(state.board.size) :
           CellAt(state.board, p) \in {Empty, SquareColour(p)}

\* a game in which both sides have jumped
C33_Witness ==
    /\ last.checked
    /\ njumps >= 2
    /\ \E p \in Positions(state.board.size) : CellAt(state.board, p) = Empty
    /\ \A p \in Positions(state.board.size) :
          CellAt(state.board, p) \in {Empty, SquareColour(p)}

\* the cells of a board that hold a piece
OccupiedCells(board) == {p \in Positions(board.size) : CellAt(board, p) # Empty}

\* a state built from the inputs of the fingerprint alone: the occupied
\* cells, the phase and the side to move; every piece gets the colour of
\* its square, and the opening position is the empty cell when the phase is
\* OpeningWhiteRemoval and one cell is empty
FromInputs(size, occupied, phase, turn) ==
    LET board == [size  |-> size,
                  cells |-> [i \in 1..(size * size) |->
                               LET pos == <<(i - 1) \div size, (i - 1) % size>>
                               IN  IF pos \in occupied THEN SquareColour(pos) ELSE Empty]]
        empty == Positions(size) \ occupied
    IN  [board             |-> board,
         phase             |-> phase,
         current_player    |-> turn,
         first_removal_pos |-> IF phase = OpeningWhiteRemoval /\ Cardinality(empty) = 1
                               THEN Some(CHOOSE p \in empty : TRUE) ELSE None,
         zhash             |-> ZHash_from_state(board, phase, turn)]

\* the moves the rules offer in a state
OfferedActions(s) ==
    CASE s.phase = OpeningBlackRemoval ->
           {KonaneAction_OpeningRemoval(p) : p \in Range(valid_black_opening_removals(s))}
      [] s.phase = OpeningWhiteRemoval ->
           {KonaneAction_OpeningRemoval(p) : p \in Range(valid_white_opening_removals(s))}
      [] s.phase = Play -> {KonaneAction_Jump(j) : j \in Range(all_valid_jumps(s))}
      [] OTHER -> {}

\* two states a search may take for one: the same board, phase, side to
\* move and fingerprint, and in OpeningWhiteRemoval the same opening position
SameForSearch(x, y) ==
    /\ x.board = y.board
    /\ x.phase = y.phase
    /\ x.current_player = y.current_player
    /\ fingerprint(x) = fingerprint(y)
    /\ x.phase = OpeningWhiteRemoval => get_opening_position(x) = get_opening_position(y)

\* the state rebuilt from the fingerprint inputs of s
Twin(s) == FromInputs(s.board.size, OccupiedCells(s.board), s.phase, s.current_player)

\* C34: a state reached by legal moves and the state rebuilt from its
\* occupied cells, its side to move and its phase alone have the same
\* fingerprint, the same legal moves and, move by move, the same successors
\* (board, phase, side to move, fingerprint); in OpeningWhiteRemoval the
\* recorded opening position is the one empty cell of the board.  Hence any
\* two reachable states with the same fingerprint inputs agree on all of
\* these.  The opening position kept in Play is not compared: no rule
\* reads it there.
C34_EqualInputsEqualStates ==
    last.checked =>
        /\ state.phase = OpeningWhiteRemoval =>
              /\ Cardinality(Positions(state.board.size) \ OccupiedCells(state.board)) = 1
              /\ get_opening_position(state) # None
              /\ CellAt(state.board, get_opening_position(state)[1]) = Empty
        /\ SameForSearch(state, Twin(state))
        /\ OfferedActions(state) = OfferedActions(Twin(state))
        /\ \A action \in OfferedActions(state) :
              SameForSearch(AfterAction(state, action), AfterAction(Twin(state), action))

\* a state in Play whose opening cell has been jumped into again, so the
\* recorded opening position cannot be read off the board, with the same
\* two or more jumps as the state rebuilt from its fingerprint inputs
C34_Witness ==
    /\ last.checked
    /\ state.phase = Play
    /\ get_opening_position(state) # None
    /\ CellAt(state.board, get_opening_position(state)[1]) # Empty
    /\ get_opening_position(Twin(state)) = None
    /\ Cardinality(OfferedActions(state)) >= 2
    /\ OfferedActions(state) = OfferedActions(Twin(state))

\* the number of moves made in a game of legal moves
MovesMade ==
    njumps + (CASE state.phase = OpeningBlackRemoval -> 0
                [] state.phase = OpeningWhiteRemoval -> 1
                [] OTHER -> 2)

\* a move takes pieces off the board: an opening removal one, a jump its
\* captures, at least one, none of them the mover's
MoveTakesPieces ==
    LET before == Cardinality(OccupiedCells(state.board))
        after  == Cardinality(OccupiedCells(state'.board))
        mover  == state.current_player
    IN  /\ after < before
        /\ last'.op = "apply_opening_removal" => after = before - 1
        /\ last'.op = "apply_jump" =>
              /\ Len(last'.jump[1].captured) >= 1
              /\ after = before - Len(last'.jump[1].captured)
              /\ Cardinality(PiecesOf(state'.board, mover))
                    = Cardinality(PiecesOf(state.board, mover))

\* C35: every legal move strictly decreases the number of pieces on the
\* board (an opening removal by exactly 1, a jump by its number of
\* captures, at least 1, the mover keeping all its pieces); the moves made
\* and the pieces left never add up to more than N*N and a piece is always
\* left, so at most N*N - 1 moves are made; a state that is not GameOver
\* has a legal move; and a game in which a legal move is taken whenever
\* there is one reaches GameOver.
C35_PlayTerminates ==
    /\ [][MoveTakesPieces]_vars
    /\ [](/\ MovesMade + Cardinality(OccupiedCells(state.board))
                <= state.board.size * state.board.size
          /\ Cardinality(OccupiedCells(state.board)) >= 1
          /\ MovesMade <= state.board.size * state.board.size - 1
          /\ state.phase.name # "GameOver" =>
                has_valid_move(state) /\ OfferedActions(state) # {})
    /\ <>(state.phase.name = "GameOver")

\* a game that ended with the last move the bound allows: N*N - 1 moves
\* were made and one piece is left
C35_Witness ==
    /\ state.phase.name = "GameOver"
    /\ last.op = "apply_jump"
    /\ MovesMade = state.board.size * state.board.size - 1
    /\ Cardinality(OccupiedCells(state.board)) = 1

\* C36: while a game is in progress the undo stack has as many entries as
\* move_history has records, and entry i (counted from 0) holds a move
\* history of i records.
C36_UndoMatchesHistory ==
    app.view = "Playing" =>
        /\ Len(app.undo_stack) = Len(app.move_history)
        /\ \A i \in 1..Len(app.undo_stack) : Len(app.undo_stack[i].history) = i - 1

\* C37: at most one search is outstanding, ai_computing is true exactly
\* while one is, and an AiMoveComputed result is applied only to the game
\* it was computed for.
C37_OneSearchAtATime ==
    /\ Len(ai.pending) <= 1
    /\ app.ai_computing <=> Len(ai.pending) = 1
    /\ ai.delivered # None /\ ai.delivered[1].applied =>
          ai.delivered[1].task.game = ai.delivered[1].game

\* the same game state, move history, undo stack and redo stack
SameGame(a, b) ==
    /\ a.game_state = b.game_state
    /\ a.move_history = b.move_history
    /\ a.undo_stack = b.undo_stack
    /\ a.redo_stack = b.redo_stack

\* the messages that can apply a move to the game of the application
MoveMessages(s) == {msg \in BoardMessages(s) : msg.msg \in {"CellClicked", "JumpSelected"}}

\* C38: with a non-empty undo stack handle_undo followed by handle_redo
\* restores the game state, the move history and both stacks, and with a
\* non-empty redo stack so does handle_redo followed by handle_undo; each
\* of the two moves one entry from one stack to the other, so the number of
\* entries on the two stacks together is unchanged; a message that applies
\* a new move leaves the redo stack empty.
C38_UndoRedoInverse ==
    app.view = "Playing" =>
        /\ app.undo_stack # <<>> =>
              /\ SameGame(handle_redo(handle_undo(app)), app)
              /\ Len(handle_undo(app).undo_stack) = Len(app.undo_stack) - 1
              /\ Len(handle_undo(app).redo_stack) = Len(app.redo_stack) + 1
              /\ handle_undo(app).game_state = Some(app.undo_stack[Len(app.undo_stack)].state)
        /\ app.redo_stack # <<>> =>
              /\ SameGame(handle_undo(handle_redo(app)), app)
              /\ Len(handle_redo(app).undo_stack) = Len(app.undo_stack) + 1
              /\ Len(handle_redo(app).redo_stack) = Len(app.redo_stack) - 1
              /\ handle_redo(app).game_state = Some(app.redo_stack[Len(app.redo_stack)].state)
        /\ \A msg \in MoveMessages(state) :
              handle_board(app, msg).app.move_history # app.move_history =>
                 handle_board(app, msg).app.redo_stack = <<>>
        /\ ai.op = "request_move" =>
              (handle_ai_move(app, ai.result, ai.root[1]).app.move_history # app.move_history
                 => handle_ai_move(app, ai.result, ai.root[1]).app.redo_stack = <<>>)

\* both stacks hold an entry, a human is to move and can apply a move,
\* and Undo followed by Redo leads back to the same application state
C38_Witness ==
    /\ app.view = "Playing"
    /\ app.undo_stack # <<>>
    /\ app.redo_stack # <<>>
    /\ ~SameGame(handle_undo(app), app)
    /\ SameGame(handle_redo(handle_undo(app)), app)
    /\ SameGame(handle_undo(handle_redo(app)), app)
    /\ \E msg \in MoveMessages(state) :
          /\ handle_board(app, msg).app.move_history # app.move_history
          /\ handle_board(app, msg).app.redo_stack = <<>>

\* input is blocked: a search is running or the side to move is the AI's
InputBlocked(k) == k.ai_computing \/ is_current_player_ai(k)

\* C39: while ai_computing is true or the side to move is AI-controlled a
\* CellClicked or JumpSelected message changes nothing in the application
\* (game state, move history, both stacks, selection) and starts no
\* search; Undo and Redo are still carried out.
C39_InputBlockedDuringAi ==
    app.view = "Playing" /\ InputBlocked(app) =>
        /\ \A msg \in MoveMessages(state) : handle_board(app, msg) = Spawned(app, FALSE)
        /\ app.undo_stack # <<>> =>
              /\ SameGame(handle_board(app, BoardMessage_Undo).app, handle_undo(app))
              /\ ~SameGame(handle_board(app, BoardMessage_Undo).app, app)
        /\ app.redo_stack # <<>> =>
              /\ SameGame(handle_board(app, BoardMessage_Redo).app, handle_redo(app))
              /\ ~SameGame(handle_board(app, BoardMessage_Redo).app, app)

\* a search is running in Play with moves to undo, the board offers a jump
\* that handle_jump_selected would apply, and handle_board drops it
C39_Witness ==
    /\ app.view = "Playing"
    /\ app.ai_computing
    /\ state.phase = Play
    /\ app.undo_stack # <<>>
    /\ \E msg \in MoveMessages(state) :
          /\ msg.msg = "JumpSelected"
          /\ ~SameGame(handle_jump_selected(app, msg.jump[1]), app)
          /\ handle_board(app, msg) = Spawned(app, FALSE)

\* the two phases in which a stone is removed
OpeningPhase(s) == s.phase = OpeningBlackRemoval \/ s.phase = OpeningWhiteRemoval

\* what evaluate returns for every state search offers as a response
ScoresOf(responses) ==
    {KonaneEvaluator_evaluate(responses[i]) : i \in 1..Len(responses)}

\* C40: in an opening phase count_mobility_for yields 0 for either colour,
\* so evaluate returns bob_wins_value (-1000) for an OpeningBlackRemoval
\* state with Black to move and alice_wins_value (+1000) for an
\* OpeningWhiteRemoval state with White to move; a state a removal led to
\* in OpeningWhiteRemoval has White to move; and the four first removals
\* generated from the initial position are all scored alike (+1000).
C40_OpeningScoresTerminal ==
    /\ OpeningPhase(state) =>
          /\ count_mobility_for(state, Black) = 0
          /\ count_mobility_for(state, White) = 0
    /\ state.phase = OpeningBlackRemoval /\ state.current_player = Black =>
          KonaneEvaluator_evaluate(KonaneState(state, None)) = bob_wins_value
    /\ state.phase = OpeningWhiteRemoval /\ state.current_player = White =>
          KonaneEvaluator_evaluate(KonaneState(state, None)) = alice_wins_value
    /\ last.op = "apply_opening_removal" /\ state.phase = OpeningWhiteRemoval =>
          state.current_player = White
    /\ ai.op = "evaluate" /\ ai.root[1].inner.phase = OpeningBlackRemoval
          /\ ai.root[1].inner.current_player = Black => ai.score = 0 - 1000
    /\ ai.op = "evaluate" /\ ai.root[1].inner.phase = OpeningWhiteRemoval
          /\ ai.root[1].inner.current_player = White => ai.score = 1000
    /\ ai.op = "generate" /\ ai.root[1].inner \in {GameState_new(n) : n \in Sizes} =>
          /\ Len(ai.responses) = 4
          /\ ScoresOf(ai.responses) = {alice_wins_value}

\* evaluate was called on the state Black's first removal led to: White is
\* to move in OpeningWhiteRemoval, a jump into the emptied cell exists on
\* the board for Black, and the score is +1000
C40_Witness ==
    /\ ai.op = "evaluate"
    /\ last.op = "apply_opening_removal"
    /\ ai.root[1].inner.phase = OpeningWhiteRemoval
    /\ ai.root[1].inner.current_player = White
    /\ Len(all_valid_jumps(set_current_player(ai.root[1].inner, Black))) > 0
    /\ ai.score = alice_wins_value
====
